---- MODULE Spec2Model ----
(***************************************************************************)
(* Model of the SafeOn ML service (safeon_ML-FastAPI/app/model.py):        *)
(* FlowFeatures validation, the per-flow rate-delta tracker, feature       *)
(* encoding, IsolationForest / RandomForest scoring, score fusion,         *)
(* training and artifact loading.                                          *)
(*                                                                         *)
(* Numbers.  Rates (pps, bps) are integers.  Raw IsolationForest decision  *)
(* values and the decision-score span are integers counting 1e-6.  Scores  *)
(* are exact rationals <<numerator, denominator>> with denominator > 0.    *)
(* Thresholds are integers counting 1/100.  Python's None is <<>> and a    *)
(* present optional value v is <<v>>.                                      *)
(***************************************************************************)
EXTENDS Integers, Sequences, FiniteSets, TLC

\* ------------------------------------------------------------------------
\* Bounds of the model
\* ------------------------------------------------------------------------
MaxCalls == 3
MaxSightings == 4
MaxTrains == 1
MaxPositives == 2
MaxNegatives == 4
\* rows of the table train.py cuts into windows, and the window length
MaxRows == 5
MaxSeqLen == 3
\* rows of a table replayed to predict
MaxReplay == 3
\* lines of an MQTT request message
MaxLines == 3

\* ------------------------------------------------------------------------
\* Optional values and exact rationals
\* ------------------------------------------------------------------------
None == <<>>
Some(v) == <<v>>
IsNone(x) == x = <<>>
Val(x) == x[1]

\* the function f on 1..n as an explicit tuple
AsSeq(f) == <<>> \o f

Max2(a, b) == IF a >= b THEN a ELSE b
Min2(a, b) == IF a <= b THEN a ELSE b

RLeq(a, b) == a[1] * b[2] <= b[1] * a[2]
REq(a, b) == a[1] * b[2] = b[1] * a[2]
RAdd(a, b) == <<a[1] * b[2] + b[1] * a[2], a[2] * b[2]>>
RHalf(a) == <<a[1], 2 * a[2]>>
RZero == <<0, 1>>
ROne == <<1, 1>>
RNeutral == <<1, 2>>
\* float(max(0.0, min(1.0, x)))
RClamp01(a) == IF RLeq(a, RZero) THEN RZero ELSE IF RLeq(ROne, a) THEN ROne ELSE a
RIn01(a) == a[2] > 0 /\ RLeq(RZero, a) /\ RLeq(a, ROne)

\* ------------------------------------------------------------------------
\* FlowFeatures
\* ------------------------------------------------------------------------
Upper(p) == CASE p = "tcp" -> "TCP" [] p = "udp" -> "UDP" [] OTHER -> p

normalize_proto(v) == Upper(v)

\* `values` holds the fields validated before `duration`; start_time and
\* end_time are declared after it, so values.get(...) returns None for both.
compute_duration(v, values) ==
    IF ~IsNone(v) THEN Val(v)
    ELSE LET start_time == None
             end_time == None
         IN IF ~IsNone(start_time) /\ ~IsNone(end_time) /\ Val(end_time) >= Val(start_time)
            THEN Val(end_time) - Val(start_time)
            ELSE 0

\* FlowFeatures(**data): the validated record
FlowFeatures(d) ==
    [src_ip |-> d.src_ip, dst_ip |-> d.dst_ip,
     src_port |-> d.src_port, dst_port |-> d.dst_port,
     proto |-> normalize_proto(d.proto),
     packet_count |-> d.packet_count, byte_count |-> d.byte_count,
     duration |-> compute_duration(d.duration, d),
     pps |-> d.pps, bps |-> d.bps,
     start_time |-> d.start_time, end_time |-> d.end_time,
     pps_delta |-> d.pps_delta, bps_delta |-> d.bps_delta,
     pps_cum_increase |-> d.pps_cum_increase,
     bps_cum_increase |-> d.bps_cum_increase]

\* ------------------------------------------------------------------------
\* Rate-delta tracker
\* ------------------------------------------------------------------------
_flow_key(flow) ==
    <<flow.src_ip, flow.dst_ip, flow.src_port, flow.dst_port, Upper(flow.proto)>>

\* self.prev_flow_stats.get(key, (current_pps, current_bps, 0.0, 0.0))
PrevGet_zero(stats, key, current_pps, current_bps) ==
    IF key \in DOMAIN stats THEN stats[key] ELSE <<0, 0, 0, 0>>

PrevGet(stats, key, current_pps, current_bps) ==
    IF key \in DOMAIN stats THEN stats[key] ELSE <<current_pps, current_bps, 0, 0>>

\* mutants of the delta computation
ResolveDeltas_nocum(prev, flow, current_pps, current_bps) ==
    LET delta_pps == IF ~IsNone(flow.pps_delta) THEN Val(flow.pps_delta) ELSE current_pps - prev[1]
        delta_bps == IF ~IsNone(flow.bps_delta) THEN Val(flow.bps_delta) ELSE current_bps - prev[2]
    IN [pps_delta |-> delta_pps, bps_delta |-> delta_bps,
        pps_cum_increase |-> prev[3] + Max2(0, delta_pps),
        bps_cum_increase |-> prev[4] + Max2(0, delta_bps)]

ResolveDeltas_signed(prev, flow, current_pps, current_bps) ==
    LET delta_pps == IF ~IsNone(flow.pps_delta) THEN Val(flow.pps_delta) ELSE current_pps - prev[1]
        delta_bps == IF ~IsNone(flow.bps_delta) THEN Val(flow.bps_delta) ELSE current_bps - prev[2]
    IN [pps_delta |-> delta_pps, bps_delta |-> delta_bps,
        pps_cum_increase |-> IF ~IsNone(flow.pps_cum_increase) THEN Val(flow.pps_cum_increase)
                             ELSE prev[3] + delta_pps,
        bps_cum_increase |-> IF ~IsNone(flow.bps_cum_increase) THEN Val(flow.bps_cum_increase)
                             ELSE prev[4] + delta_bps]

\* _resolve_flow_deltas, from the previous tuple to the returned values
ResolveDeltas(prev, flow, current_pps, current_bps) ==
    LET delta_pps == IF ~IsNone(flow.pps_delta) THEN Val(flow.pps_delta) ELSE current_pps - prev[1]
        delta_bps == IF ~IsNone(flow.bps_delta) THEN Val(flow.bps_delta) ELSE current_bps - prev[2]
        pps_cum == IF ~IsNone(flow.pps_cum_increase) THEN Val(flow.pps_cum_increase)
                   ELSE prev[3] + Max2(0, delta_pps)
        bps_cum == IF ~IsNone(flow.bps_cum_increase) THEN Val(flow.bps_cum_increase)
                   ELSE prev[4] + Max2(0, delta_bps)
    IN [pps_delta |-> delta_pps, bps_delta |-> delta_bps,
        pps_cum_increase |-> pps_cum, bps_cum_increase |-> bps_cum]

StoreStats_alone(stats, key, current_pps, current_bps, d) ==
    [k \in {key} |-> <<current_pps, current_bps, d.pps_cum_increase, d.bps_cum_increase>>]

\* self.prev_flow_stats[key] = (current_pps, current_bps, pps_cum, bps_cum)
StoreStats(stats, key, current_pps, current_bps, d) ==
    [k \in DOMAIN stats \cup {key} |->
        IF k = key THEN <<current_pps, current_bps, d.pps_cum_increase, d.bps_cum_increase>>
        ELSE stats[k]]

\* ------------------------------------------------------------------------
\* Encoders, scaler and feature vectors
\* ------------------------------------------------------------------------
feature_columns ==
    <<"src_ip", "dst_ip", "src_port", "dst_port", "proto", "packet_count",
      "byte_count", "duration", "pps", "bps", "pps_delta", "bps_delta",
      "pps_cum_increase", "bps_cum_increase">>

Columns == {feature_columns[i] : i \in 1..Len(feature_columns)}

Range(s) == {s[i] : i \in 1..Len(s)}

\* sorted universes of the categorical values (LabelEncoder sorts its classes)
IpUniverse == <<1, 2, 3>>
ProtoUniverse == <<"TCP", "UDP", "tcp", "udp">>

\* LabelEncoder().fit(values): classes_ is the sorted list of distinct values
LabelEncoderFit(universe, values) == SelectSeq(universe, LAMBDA v : v \in values)

IndexOf(seq, v) == CHOOSE i \in 1..Len(seq) : seq[i] = v

\* encoder.transform([value])[0]
LabelTransform(encoder, value) == IndexOf(encoder, value) - 1

SafeLabelEncode_first(encoder, value) ==
    IF value \notin Range(encoder) THEN 0 ELSE IndexOf(encoder, value) - 1

\* _safe_label_encode
SafeLabelEncode(encoder, value) ==
    IF value \notin Range(encoder) THEN -1 ELSE LabelTransform(encoder, value)

\* np.log1p on the rates of the model, in 1/1000 (floor of 1000 * ln(1 + x))
Log1p(x) ==
    CASE x = 0 -> 0 [] x = 8 -> 2197 [] x = 10 -> 2397 [] x = 12 -> 2564
      [] x = 15 -> 2772 [] x = 20 -> 3044 [] x = 40 -> 3713 [] x = 100 -> 4615
      [] OTHER -> 1000 * x

\* MinMaxScaler().fit(rows): per-column minimum and range
ScalerFit(rows) ==
    [c \in Columns |->
        LET vals == {rows[i][c] : i \in 1..Len(rows)}
            lo == CHOOSE v \in vals : \A w \in vals : v <= w
            hi == CHOOSE v \in vals : \A w \in vals : v >= w
        IN [data_min |-> lo, data_range |-> hi - lo]]

\* scaler.transform(row): (x - data_min) / data_range, a zero range scales by 1
ScalerTransform(sc, row) ==
    [c \in Columns |->
        <<row[c] - sc[c].data_min,
          IF sc[c].data_range = 0 THEN 1 ELSE sc[c].data_range>>]

\* the encoded row of _transform_flow (lines 555-584) before scaling
EncodeRow(encs, flow, d) ==
    [src_ip |-> SafeLabelEncode(encs.enc_src_ip, flow.src_ip),
     dst_ip |-> SafeLabelEncode(encs.enc_dst_ip, flow.dst_ip),
     src_port |-> flow.src_port, dst_port |-> flow.dst_port,
     proto |-> SafeLabelEncode(encs.enc_proto, Upper(flow.proto)),
     packet_count |-> flow.packet_count, byte_count |-> flow.byte_count,
     duration |-> flow.duration,
     pps |-> Log1p(flow.pps), bps |-> Log1p(flow.bps),
     pps_delta |-> d.pps_delta, bps_delta |-> d.bps_delta,
     pps_cum_increase |-> d.pps_cum_increase,
     bps_cum_increase |-> d.bps_cum_increase]

\* ------------------------------------------------------------------------
\* Detectors.  The fitted sklearn estimators are deterministic functions of
\* (estimator, vector); the estimator is the record its fit produced.
\* ------------------------------------------------------------------------
\* number of columns whose scaled value lies outside the fitted range [0, 1]
Outliers(x) == Cardinality({c \in Columns : ~RIn01(x[c])})

\* IsolationForest(...).fit(scaled_normal)
IsolationForestFit(scaled_normal) == [offset |-> 50000 * Len(scaled_normal)]

\* iso_model.decision_function([x])[0], counting 1e-6
DecisionFunction(m, x) == m.offset - 100000 * Outliers(x)

\* RandomForestClassifier(...): the estimator before fit (predict_proba raises)
RandomForestNew == [fitted |-> FALSE, weight |-> 0]

\* rf_model.fit(scaled_all, labels_all)
RandomForestFit(scaled_all, labels_all) ==
    [fitted |-> TRUE,
     weight |-> Cardinality({i \in 1..Len(labels_all) : labels_all[i] = 1})]

PredictProbaRaises(m) == ~m.fitted

\* rf_model.predict_proba([x])[0][1]
PredictProba(m, x) == <<Min2(m.weight * Outliers(x), 4), 4>>

\* span <= 1e-9, the span counting 1e-6
Degenerate(span) == 1000 * span <= 1

IsoScore_noclamp(iso_model, dmin, dmax, x) ==
    IF IsNone(iso_model) THEN RZero
    ELSE LET raw == DecisionFunction(Val(iso_model), x)
             span == dmax - dmin
         IN IF Degenerate(span) THEN RClamp01(<<-raw, 1000000>>)
            ELSE <<dmax - raw, span>>

\* _iso_score
IsoScore(iso_model, dmin, dmax, x) ==
    IF IsNone(iso_model) THEN RZero
    ELSE LET raw == DecisionFunction(Val(iso_model), x)
             span == dmax - dmin
         IN IF Degenerate(span) THEN RClamp01(<<-raw, 1000000>>)
            ELSE RClamp01(<<dmax - raw, span>>)

RfScore_zero(rf_model, x) ==
    IF IsNone(rf_model) THEN None
    ELSE IF PredictProbaRaises(Val(rf_model)) THEN Some(RZero)
    ELSE Some(PredictProba(Val(rf_model), x))

\* _rf_score: None when the classifier is absent or raises
RfScore(rf_model, x) ==
    IF IsNone(rf_model) THEN None
    ELSE IF PredictProbaRaises(Val(rf_model)) THEN None
    ELSE Some(PredictProba(Val(rf_model), x))

\* predict, lines 396-398
Fuse_zero(iso_score, rf_score) ==
    LET rf_contrib == IF ~IsNone(rf_score) THEN Val(rf_score) ELSE RZero
    IN RHalf(RAdd(iso_score, RClamp01(rf_contrib)))

Fuse(iso_score, rf_score) ==
    LET rf_contrib == IF ~IsNone(rf_score) THEN Val(rf_score) ELSE RNeutral
    IN RHalf(RAdd(iso_score, RClamp01(rf_contrib)))

\* hybrid_score >= self.threshold, the threshold counting 1/100
Verdict_strict(hybrid_score, thresh) == ~RLeq(hybrid_score, <<thresh, 100>>)

Verdict(hybrid_score, thresh) == RLeq(<<thresh, 100>>, hybrid_score)

IsoScores_unclipped(iso_model, dmin, dmax, matrix) ==
    [i \in 1..Len(matrix) |->
        IF IsNone(iso_model) THEN RZero
        ELSE LET raw == DecisionFunction(Val(iso_model), matrix[i])
                 span == dmax - dmin
             IN IF Degenerate(span) THEN RClamp01(<<-raw, 1000000>>)
                ELSE <<dmax - raw, span>>]

\* _iso_scores, _rf_scores and _hybrid_scores over a matrix (a sequence of rows)
IsoScores(iso_model, dmin, dmax, matrix) ==
    [i \in 1..Len(matrix) |->
        IF IsNone(iso_model) THEN RZero
        ELSE LET raw == DecisionFunction(Val(iso_model), matrix[i])
                 span == dmax - dmin
             IN IF Degenerate(span) THEN RClamp01(<<-raw, 1000000>>)
                ELSE RClamp01(<<dmax - raw, span>>)]

RfScores(rf_model, matrix) ==
    IF IsNone(rf_model) THEN [i \in 1..Len(matrix) |-> None]
    ELSE IF PredictProbaRaises(Val(rf_model)) THEN [i \in 1..Len(matrix) |-> None]
    ELSE [i \in 1..Len(matrix) |-> Some(PredictProba(Val(rf_model), matrix[i]))]

HybridScores(iso_model, rf_model, dmin, dmax, matrix) ==
    LET iso_scores == IsoScores(iso_model, dmin, dmax, matrix)
        rf_scores == RfScores(rf_model, matrix)
    IN AsSeq([i \in 1..Len(matrix) |->
          LET rf_contrib == IF IsNone(rf_scores[i]) THEN RNeutral
                            ELSE RClamp01(Val(rf_scores[i]))
          IN RHalf(RAdd(iso_scores[i], rf_contrib))])

\* ------------------------------------------------------------------------
\* Training tables
\* ------------------------------------------------------------------------
\* a row of dataset.csv; the columns the model does not vary are fixed
Row(src, proto, pps, bps, start, label) ==
    [src_ip |-> src, dst_ip |-> 3, src_port |-> 1000, dst_port |-> 80,
     proto |-> proto, packet_count |-> 1, byte_count |-> 40, duration |-> 0,
     pps |-> pps, bps |-> bps, start_time |-> start, label |-> label]

\* (start_time, position) order with unparseable timestamps (NaT) last
TsBefore(rows, j, i) ==
    LET tj == rows[j].start_time
        ti == rows[i].start_time
    IN IF IsNone(tj) THEN IsNone(ti) /\ j < i
       ELSE IF IsNone(ti) THEN TRUE
       ELSE Val(tj) < Val(ti) \/ (Val(tj) = Val(ti) /\ j < i)

\* df.sort_values("start_time").reset_index(drop=True)
SortByStart(rows) ==
    AsSeq([r \in 1..Len(rows) |->
        rows[CHOOSE i \in 1..Len(rows) :
                Cardinality({j \in 1..Len(rows) : TsBefore(rows, j, i)}) = r - 1]])

GroupKey(r) == <<r.src_ip, r.dst_ip, r.src_port, r.dst_port, r.proto>>

\* the rows of the same group sorted before row i by (_ts, _orig_idx)
GroupBefore(rows, i) ==
    {j \in 1..Len(rows) : GroupKey(rows[j]) = GroupKey(rows[i]) /\ TsBefore(rows, j, i)}

GroupPrev(rows, i) ==
    CHOOSE j \in GroupBefore(rows, i) :
        \A k \in GroupBefore(rows, i) : k = j \/ TsBefore(rows, k, j)

RateDiff_nofill(rows, i, col) ==
    IF GroupBefore(rows, i) = {} THEN rows[i][col]
    ELSE rows[i][col] - rows[GroupPrev(rows, i)][col]

\* groupby(group_cols)[col].diff().fillna(0.0)
RateDiff(rows, i, col) ==
    IF GroupBefore(rows, i) = {} THEN 0
    ELSE rows[i][col] - rows[GroupPrev(rows, i)][col]

\* groupby(group_cols)[delta].transform(lambda s: s.clip(lower=0.0).cumsum())
RECURSIVE ClipCumSum(_, _, _)
ClipCumSum(rows, i, col) ==
    Max2(0, RateDiff(rows, i, col))
      + (IF GroupBefore(rows, i) = {} THEN 0 ELSE ClipCumSum(rows, GroupPrev(rows, i), col))

\* _inject_rate_deltas: the four delta columns of every row, in the row order of df
InjectRateDeltas(rows) ==
    AsSeq([i \in 1..Len(rows) |->
        [pps_delta |-> RateDiff(rows, i, "pps"),
         bps_delta |-> RateDiff(rows, i, "bps"),
         pps_cum_increase |-> ClipCumSum(rows, i, "pps"),
         bps_cum_increase |-> ClipCumSum(rows, i, "bps")]])

\* train, lines 256-282: sort, upper-case the protocol
PrepareRows(rows) ==
    LET sorted == SortByStart(rows)
    IN AsSeq([i \in 1..Len(sorted) |-> [sorted[i] EXCEPT !.proto = Upper(sorted[i].proto)]])

\* the tables dataset.csv can hold
DsBoth ==
    [exists |-> TRUE, columns_ok |-> TRUE,
     rows |-> <<Row(1, "tcp", 15, 8, Some(2), 0), Row(1, "TCP", 10, 0, Some(1), 0),
                Row(2, "TCP", 20, 8, Some(3), 1)>>]
DsNormal ==
    [exists |-> TRUE, columns_ok |-> TRUE,
     rows |-> <<Row(1, "TCP", 10, 0, None, 0), Row(1, "tcp", 10, 8, Some(1), 0)>>]
DsAttack ==
    [exists |-> TRUE, columns_ok |-> TRUE,
     rows |-> <<Row(2, "TCP", 20, 8, Some(1), 1)>>]
DsBadColumns == [exists |-> TRUE, columns_ok |-> FALSE, rows |-> <<>>]
DsMissing == [exists |-> FALSE, columns_ok |-> FALSE, rows |-> <<>>]

Datasets == {DsBoth, DsNormal, DsAttack, DsBadColumns, DsMissing}

\* ------------------------------------------------------------------------
\* Threshold calibration
\* ------------------------------------------------------------------------
\* lines 657-660: tp, fp and fn of the candidate thresh (1/100) on the hybrid
\* scores
F1At(hybrid_scores, labels, thresh) ==
    LET n == Len(labels)
        pred(i) == RLeq(<<thresh, 100>>, hybrid_scores[i])
    IN [tp |-> Cardinality({i \in 1..n : pred(i) /\ labels[i] = 1}),
        fp |-> Cardinality({i \in 1..n : pred(i) /\ labels[i] = 0}),
        fn |-> Cardinality({i \in 1..n : ~pred(i) /\ labels[i] = 1})]

\* best_f1 = -1.0 (line 654), below the f1 of every candidate
NoF1 == [tp |-> -1, fp |-> 0, fn |-> 0]

\* lines 661-663: precision = tp / (tp + fp + 1e-9), recall = tp / (tp + fn + 1e-9),
\* f1 = 2 * precision * recall / (precision + recall + 1e-9). f1 is 0.0 when
\* tp = 0 and 2 / S otherwise, where
\*   S * tp^2 = tp (2 tp + fp + fn) + 1e-9 (2 tp + (tp + fn)(tp + fp)) + 1e-18 (...)
\* Line 665, f1 > best_f1, on the counts of the two: the smaller S is the
\* greater f1; counts of equal plain F1 are ordered by the 1e-9 terms
F1Greater(a, b) ==
    LET inv0(c) == c.tp * (2 * c.tp + c.fp + c.fn)
        inv1(c) == 2 * c.tp + (c.tp + c.fn) * (c.tp + c.fp)
    IN IF b.tp < 0 THEN TRUE
       ELSE IF a.tp = 0 THEN FALSE
       ELSE IF b.tp = 0 THEN TRUE
       ELSE IF inv0(a) * b.tp * b.tp # inv0(b) * a.tp * a.tp
       THEN inv0(a) * b.tp * b.tp < inv0(b) * a.tp * a.tp
       ELSE inv1(a) * b.tp * b.tp < inv1(b) * a.tp * a.tp

\* lines 657-667, one turn of the loop: the candidate 0.09 + k/100 replaces
\* the best one when its f1 is greater
LoopStep(hybrid_scores, labels, best, k) ==
    IF F1Greater(F1At(hybrid_scores, labels, 9 + k), best.f1)
    THEN [thresh |-> 9 + k, f1 |-> F1At(hybrid_scores, labels, 9 + k)]
    ELSE best

\* the loop of lines 655-667 over the candidates 0.10, 0.11, ..., 0.99: f1 >
\* best_f1 moves best_thresh, so the loop ends on the first candidate of
\* greatest f1 when that f1 is above the initial best_f1
ThresholdLoop(hybrid_scores, labels, best_thresh, best_f1) ==
    LET f1 == AsSeq([k \in 1..90 |-> F1At(hybrid_scores, labels, 9 + k)])
        greatest == {c \in Range(f1) : \A d \in Range(f1) : ~F1Greater(d, c)}
        taken == {k \in 1..90 : f1[k] \in greatest /\ F1Greater(f1[k], best_f1)}
    IN IF taken = {} THEN best_thresh
       ELSE 9 + (CHOOSE k \in taken : \A j \in taken : k <= j)

\* _calculate_threshold
CalculateThreshold(svc, features, labels) ==
    IF Len(features) = 0 \/ Len(labels) = 0 THEN svc.threshold
    ELSE IF Cardinality(Range(labels)) < 2 THEN svc.threshold
    ELSE ThresholdLoop(
            HybridScores(svc.iso_model, svc.rf_model, svc.iso_decision_min,
                         svc.iso_decision_max, features),
            labels, svc.threshold, NoF1)

\* ------------------------------------------------------------------------
\* The service and its model directory
\* ------------------------------------------------------------------------
EmptyStats == <<>>

EmptyDir ==
    [enc_src_ip |-> None, enc_dst_ip |-> None, enc_proto |-> None, scaler |-> None,
     isolation_forest |-> None, rf_model |-> None, meta |-> None]

\* the attributes set by __init__ before it calls _load_artifacts
NewService(allow_dummy, thresh, dataset) ==
    [enc_src_ip |-> None, enc_dst_ip |-> None, enc_proto |-> None, scaler |-> None,
     iso_model |-> None, rf_model |-> None,
     iso_decision_min |-> 0, iso_decision_max |-> 1000000,
     threshold |-> thresh, allow_dummy |-> allow_dummy,
     model_loaded |-> FALSE, prev_flow_stats |-> EmptyStats,
     dataset |-> dataset, engine |-> None]

MinOf(seq) == CHOOSE v \in Range(seq) : \A w \in Range(seq) : v <= w
MaxOf(seq) == CHOOSE v \in Range(seq) : \A w \in Range(seq) : v >= w

WidenSpan_kept(dmin, dmax) == dmax

\* lines 337-338 and 831-832: widen a degenerate span by 1e-6
WidenSpan(dmin, dmax) == IF Degenerate(dmax - dmin) THEN dmin + 1 ELSE dmax

\* the encoded table of train (lines 289-306) and of the span recomputation
EncodedTable(encs, rows, deltas) ==
    AsSeq([i \in 1..Len(rows) |-> EncodeRow(encs, rows[i], deltas[i])])

\* the three fitted encoders of the service
Encoders(svc) ==
    [enc_src_ip |-> Val(svc.enc_src_ip), enc_dst_ip |-> Val(svc.enc_dst_ip),
     enc_proto |-> Val(svc.enc_proto)]

\* lines 335-338 and 829-832: the span of the decision values
SpanOf(svc, decisions) ==
    [svc EXCEPT !.iso_decision_min = MinOf(decisions),
                !.iso_decision_max = WidenSpan(MinOf(decisions), MaxOf(decisions))]

\* lines 827-828: decision_function of the scaled table
IsoDecisions(iso, sc, encoded) ==
    AsSeq([i \in 1..Len(encoded) |-> DecisionFunction(iso, ScalerTransform(sc, encoded[i]))])

\* lines 811-832: the table encoded as in train, scored, and its span
RecomputeOnRows(svc, rows) ==
    IF Len(rows) = 0 THEN svc
    ELSE SpanOf(svc, IsoDecisions(Val(svc.iso_model), Val(svc.scaler),
                                  EncodedTable(Encoders(svc), rows, InjectRateDeltas(rows))))

\* _recompute_iso_span_from_dataset
RecomputeIsoSpan(svc) ==
    IF IsNone(svc.enc_src_ip) \/ IsNone(svc.enc_dst_ip) \/ IsNone(svc.enc_proto)
       \/ IsNone(svc.scaler) \/ IsNone(svc.iso_model) THEN svc
    ELSE IF ~svc.dataset.exists THEN svc
    ELSE IF ~svc.dataset.columns_ok THEN svc
    ELSE RecomputeOnRows(svc, PrepareRows(svc.dataset.rows))

\* lines 454-464: meta.json, or the recomputation when it is absent
LoadMeta(svc, meta) ==
    IF IsNone(meta) THEN RecomputeIsoSpan(svc)
    ELSE IF ~Val(meta).parses THEN svc
    ELSE [svc EXCEPT !.threshold = Val(meta).threshold,
                     !.iso_decision_min = Val(meta).iso_decision_min,
                     !.iso_decision_max = Val(meta).iso_decision_max]

LoadEnvThreshold_unparsed(svc, env_thresh) ==
    IF IsNone(env_thresh) THEN svc
    ELSE [svc EXCEPT !.threshold = Val(env_thresh).value]

\* lines 467-473: ANOMALY_THRESHOLD
LoadEnvThreshold(svc, env_thresh) ==
    IF IsNone(env_thresh) THEN svc
    ELSE IF ~Val(env_thresh).parses THEN svc
    ELSE [svc EXCEPT !.threshold = Val(env_thresh).value]

\* lines 448-452: the five required files
LoadRequired(svc, dir) ==
    [svc EXCEPT !.enc_src_ip = dir.enc_src_ip, !.enc_dst_ip = dir.enc_dst_ip,
                !.enc_proto = dir.enc_proto, !.scaler = dir.scaler,
                !.iso_model = dir.isolation_forest]

\* lines 475-486: the optional classifier, the tracker cleared, model_loaded
LoadClassifier(svc, dir) ==
    [svc EXCEPT !.rf_model = dir.rf_model,
                !.prev_flow_stats = EmptyStats,
                !.model_loaded = ~IsNone(svc.iso_model)]

\* _load_artifacts
LoadArtifacts(svc, dir, env_thresh) ==
    IF IsNone(dir.enc_src_ip) \/ IsNone(dir.enc_dst_ip) \/ IsNone(dir.enc_proto)
       \/ IsNone(dir.scaler) \/ IsNone(dir.isolation_forest)
    THEN [svc EXCEPT !.model_loaded = FALSE, !.prev_flow_stats = EmptyStats]
    ELSE LoadClassifier(
             LoadEnvThreshold(LoadMeta(LoadRequired(svc, dir), dir.meta), env_thresh), dir)

\* ------------------------------------------------------------------------
\* train
\* ------------------------------------------------------------------------
\* the positions of the rows with label 0 (line 313)
NormalIndexes(rows) == SelectSeq([i \in 1..Len(rows) |-> i], LAMBDA i : rows[i].label = 0)

\* lines 285-287: the encoders are fitted into the service
TrainFitEncoders(svc, rows) ==
    [svc EXCEPT
        !.enc_src_ip = Some(LabelEncoderFit(IpUniverse, {rows[i].src_ip : i \in 1..Len(rows)})),
        !.enc_dst_ip = Some(LabelEncoderFit(IpUniverse, {rows[i].dst_ip : i \in 1..Len(rows)})),
        !.enc_proto = Some(LabelEncoderFit(ProtoUniverse, {rows[i].proto : i \in 1..Len(rows)}))]

\* lines 317-322: the scaler fitted on the normal rows, the scaled tables
ScaleTables(sc, encoded, normal, rows) ==
    [scaler |-> sc,
     scaled_normal |-> AsSeq([k \in 1..Len(normal) |-> ScalerTransform(sc, encoded[normal[k]])]),
     scaled_all |-> AsSeq([i \in 1..Len(rows) |-> ScalerTransform(sc, encoded[i])]),
     labels_all |-> AsSeq([i \in 1..Len(rows) |-> rows[i].label])]

FitScaler(encoded, normal, rows) ==
    ScaleTables(ScalerFit(AsSeq([k \in 1..Len(normal) |-> encoded[normal[k]]])),
                encoded, normal, rows)

\* lines 289-322: the encoded table, the scaler, the scaled tables
TrainTables(svc, rows) ==
    FitScaler(EncodedTable(Encoders(svc), rows, InjectRateDeltas(rows)),
              NormalIndexes(rows), rows)

\* lines 331-338: the isolation forest and its decision-score span
FitIso(svc, iso, t) ==
    SpanOf([svc EXCEPT !.iso_model = Some(iso)],
           AsSeq([i \in 1..Len(t.scaled_all) |-> DecisionFunction(iso, t.scaled_all[i])]))

TrainIso(svc, t) == FitIso(svc, IsolationForestFit(t.scaled_normal), t)

\* lines 341-355: the classifier, fitted only when both labels are present
TrainRf(svc, t) ==
    IF Cardinality(Range(t.labels_all)) >= 2
    THEN [svc EXCEPT !.rf_model = Some(RandomForestFit(t.scaled_all, t.labels_all))]
    ELSE [svc EXCEPT !.rf_model = None]

MetaOf(svc) ==
    [parses |-> TRUE, threshold |-> svc.threshold,
     iso_decision_min |-> svc.iso_decision_min, iso_decision_max |-> svc.iso_decision_max]

\* lines 324-327, 333, 351, 364: the files train has written when it ends; the
\* classifier file is written only when a classifier was fitted
WriteFiles(svc, dir) ==
    [dir EXCEPT !.enc_src_ip = svc.enc_src_ip, !.enc_dst_ip = svc.enc_dst_ip,
                !.enc_proto = svc.enc_proto, !.scaler = svc.scaler,
                !.isolation_forest = svc.iso_model,
                !.rf_model = IF IsNone(svc.rf_model) THEN dir.rf_model ELSE svc.rf_model,
                !.meta = Some(MetaOf(svc))]

\* lines 324-366: the files written, then the reload that ends train
TrainReload(svc, dir, env_thresh) ==
    [service |-> LoadArtifacts(svc, WriteFiles(svc, dir), env_thresh),
     model_dir |-> WriteFiles(svc, dir), raised |-> "no"]

\* lines 357-364: the threshold
TrainCalibrate(svc, dir, env_thresh, t) ==
    TrainReload([svc EXCEPT !.threshold = CalculateThreshold(svc, t.scaled_all, t.labels_all)],
                dir, env_thresh)

\* lines 317-355: the scaler and the two detectors
TrainDetectors(svc, dir, env_thresh, t) ==
    TrainCalibrate(TrainRf(TrainIso([svc EXCEPT !.scaler = Some(t.scaler)], t), t),
                   dir, env_thresh, t)

\* lines 313-315: no row with label 0 raises, the encoders stay assigned
TrainNormal(svc, dir, env_thresh, rows) ==
    IF \A i \in 1..Len(rows) : rows[i].label # 0
    THEN [service |-> svc, model_dir |-> dir, raised |-> "ValueError"]
    ELSE TrainDetectors(svc, dir, env_thresh, TrainTables(svc, rows))

\* lines 256-315 on the prepared rows
TrainOnRows(svc, dir, env_thresh, rows) ==
    TrainNormal(TrainFitEncoders(svc, rows), dir, env_thresh, rows)

\* train(): the service and the model directory it leaves, and what it raised
Train(svc, dir, env_thresh) ==
    IF ~svc.dataset.exists
    THEN [service |-> svc, model_dir |-> dir, raised |-> "FileNotFoundError"]
    ELSE IF ~svc.dataset.columns_ok
    THEN [service |-> svc, model_dir |-> dir, raised |-> "ValueError"]
    ELSE TrainOnRows(svc, dir, env_thresh, PrepareRows(svc.dataset.rows))

\* ------------------------------------------------------------------------
\* predict
\* ------------------------------------------------------------------------
DummyResult_null ==
    [is_anom |-> FALSE, iso_score |-> RZero, hybrid_score |-> RNeutral, rf_score |-> None]

\* _dummy_result
DummyResult ==
    [is_anom |-> FALSE, iso_score |-> RZero, hybrid_score |-> RZero, rf_score |-> Some(RNeutral)]

NoRow == [c \in Columns |-> 0]
NoResult == [is_anom |-> FALSE, iso_score |-> RZero, hybrid_score |-> RZero, rf_score |-> None]

\* predict(flow) up to line 399: the record of the call (how it ended, what it
\* read and returned) and the service it leaves
Predict(svc, flow) ==
    LET key == _flow_key(flow)
        nothing == [kind |-> "raise", flow |-> flow, tracked |-> key \in DOMAIN svc.prev_flow_stats,
                    prev |-> <<0, 0, 0, 0>>, row |-> NoRow, result |-> NoResult,
                    record_id |-> None]
    IN IF ~svc.model_loaded
       THEN IF ~svc.allow_dummy THEN [call |-> nothing, service |-> svc]
            ELSE [call |-> [nothing EXCEPT !.kind = "dummy", !.result = DummyResult],
                  service |-> svc]
       ELSE IF IsNone(svc.enc_src_ip) \/ IsNone(svc.enc_dst_ip) \/ IsNone(svc.enc_proto)
               \/ IsNone(svc.scaler)
       THEN [call |-> nothing, service |-> svc]
       ELSE
       LET prev == PrevGet(svc.prev_flow_stats, key, flow.pps, flow.bps)
           d == ResolveDeltas(prev, flow, flow.pps, flow.bps)
           row == EncodeRow(Encoders(svc), flow, d)
           scaled_vec == ScalerTransform(Val(svc.scaler), row)
           iso_score == IsoScore(svc.iso_model, svc.iso_decision_min, svc.iso_decision_max,
                                 scaled_vec)
           rf_score == RfScore(svc.rf_model, scaled_vec)
           hybrid_score == Fuse(iso_score, rf_score)
       IN [call |-> [kind |-> "model", flow |-> flow,
                     tracked |-> key \in DOMAIN svc.prev_flow_stats, prev |-> prev, row |-> row,
                     result |-> [is_anom |-> Verdict(hybrid_score, svc.threshold),
                                 iso_score |-> iso_score, hybrid_score |-> hybrid_score,
                                 rf_score |-> rf_score],
                     record_id |-> None],
           service |-> [svc EXCEPT !.prev_flow_stats =
                           StoreStats(svc.prev_flow_stats, key, flow.pps, flow.bps, d)]]

\* __init__ line 187: the engine of the score sink, when a database URL is set
WithEngine(svc, database_url) ==
    [svc EXCEPT !.engine = IF IsNone(database_url) THEN None ELSE Some("engine")]

\* the INSERT of _persist_score is attempted only with an engine
InsertOutcomes(engine) == IF IsNone(engine) THEN {FALSE} ELSE BOOLEAN

PersistScore_propagates(engine, inserted) ==
    IF IsNone(engine) THEN [raised |-> FALSE, record_id |-> None]
    ELSE IF inserted THEN [raised |-> FALSE, record_id |-> Some("score_id")]
    ELSE [raised |-> TRUE, record_id |-> None]

\* _persist_score: the id of the row written, None without an engine or when
\* the INSERT raised (the exception is logged)
PersistScore(engine, inserted) ==
    IF IsNone(engine) THEN [raised |-> FALSE, record_id |-> None]
    ELSE IF inserted THEN [raised |-> FALSE, record_id |-> Some("score_id")]
    ELSE [raised |-> FALSE, record_id |-> None]

\* predict lines 400-426 after the scoring: the score is handed to the sink,
\* then the result is returned
PersistThen(r, p) ==
    IF r.call.kind # "model" THEN r
    ELSE IF p.raised
    THEN [r EXCEPT !.call.kind = "raise", !.call.result = NoResult]
    ELSE [r EXCEPT !.call.record_id = p.record_id]

\* predict(flow), the whole call
PredictPersist(svc, flow, inserted) ==
    PersistThen(Predict(svc, flow), PersistScore(svc.engine, inserted))

RestPredict_caught(call) ==
    IF call.kind = "raise" THEN 400
    ELSE IF Cardinality(DOMAIN call.result) # 2 THEN 400
    ELSE 200

\* main.py, POST /predict: the HTTP status of the response. A RuntimeError of
\* predict becomes 503; a returned dict is unpacked into the two names label
\* and confidence, which raises ValueError (status 400) unless it has two keys
RestPredict(call) ==
    IF call.kind = "raise" THEN 503
    ELSE IF Cardinality(DOMAIN call.result) # 2 THEN 400
    ELSE 200

\* ------------------------------------------------------------------------
\* State
\* ------------------------------------------------------------------------
VARIABLES
    service,     \* the attributes of the ModelService instance
    model_dir,   \* the artifact files under model_dir
    env_thresh,  \* the environment variable ANOMALY_THRESHOLD
    last,        \* the last predict call since the artifacts were loaded
    ncalls,      \* predict calls made
    ntrains,     \* train calls made
    calls,       \* the predict call each handler thread is in, statement by statement
    trainer      \* the construction or train call in progress: its position, the
                 \* service and directory it started from, the files it wrote

vars == <<service, model_dir, env_thresh, last, ncalls, ntrains, calls, trainer>>

\* ------------------------------------------------------------------------
\* Inputs
\* ------------------------------------------------------------------------
\* the JSON object of a flow record
FlowData(src, proto, pps, bps, ov) ==
    [src_ip |-> src, dst_ip |-> 3, src_port |-> 1000, dst_port |-> 80, proto |-> proto,
     packet_count |-> 1, byte_count |-> 40, duration |-> None, pps |-> pps, bps |-> bps,
     start_time |-> None, end_time |-> None,
     pps_delta |-> ov[1], bps_delta |-> ov[2],
     pps_cum_increase |-> ov[3], bps_cum_increase |-> ov[4]]

NoOverrides == <<None, None, None, None>>

Overrides ==
    {NoOverrides,
     <<Some(5), None, None, None>>,
     <<None, Some(-8), None, None>>,
     <<None, None, Some(2), None>>,
     <<Some(-3), Some(8), None, Some(-1)>>}

TrackerInputs ==
    {FlowData(1, "tcp", pps, bps, NoOverrides) : pps \in {10, 12, 15, 20}, bps \in {0, 8}}
    \cup {FlowData(1, "TCP", pps, 8, ov) : pps \in {10, 20}, ov \in Overrides}
    \cup {FlowData(2, "TCP", 10, 0, NoOverrides)}

ServiceInputs ==
    {FlowData(1, "tcp", 10, 8, NoOverrides),
     FlowData(1, "TCP", 40, 8, NoOverrides),
     FlowData(2, "tcp", 10, 8, NoOverrides),
     FlowData(1, "udp", 10, 8, NoOverrides),
     FlowData(1, "tcp", 10, 8, <<Some(5), None, None, None>>),
     FlowData(1, "tcp", 10, 8, <<Some(-3), Some(8), None, Some(-1)>>)}

NoCall ==
    [kind |-> "none", flow |-> FlowFeatures(FlowData(1, "TCP", 10, 8, NoOverrides)),
     tracked |-> FALSE, prev |-> <<0, 0, 0, 0>>, row |-> NoRow, result |-> NoResult,
     record_id |-> None]

EnvThresholds == {None, Some([parses |-> TRUE, value |-> 50])}

\* the model directory a previous run of train left
TrainedDir(ds) == Train(NewService(TRUE, 51, ds), EmptyDir, None).model_dir

\* ModelService.from_env(): __init__ ends with _load_artifacts
Construct(allow_dummy, env, dataset, dir) ==
    LoadArtifacts(
        NewService(allow_dummy, IF IsNone(env) THEN 51 ELSE Val(env).value, dataset),
        dir, env)

\* the threads that call predict on the one service: the REST handler's
\* worker thread and the MQTT client's callback thread
Threads == {"rest", "mqtt"}

\* the artifacts, threshold and span a call computed its result with
Bundle(svc) ==
    [enc_src_ip |-> svc.enc_src_ip, enc_dst_ip |-> svc.enc_dst_ip, enc_proto |-> svc.enc_proto,
     scaler |-> svc.scaler, iso_model |-> svc.iso_model, rf_model |-> svc.rf_model,
     threshold |-> svc.threshold, iso_decision_min |-> svc.iso_decision_min,
     iso_decision_max |-> svc.iso_decision_max]

IdleCall ==
    [pc |-> "idle", kind |-> "none", flow |-> NoCall.flow, prev |-> <<0, 0, 0, 0>>,
     row |-> NoRow, vec |-> [c \in Columns |-> RZero], result |-> NoResult,
     used |-> Bundle(NewService(TRUE, 0, DsMissing))]

IdleTrainer ==
    [pc |-> "idle", service |-> NewService(TRUE, 0, DsMissing), model_dir |-> EmptyDir,
     written |-> {}]

\* the flow records each thread is handed
ThreadInputs(t) ==
    IF t = "rest" THEN {FlowData(1, "tcp", 10, 8, NoOverrides)}
    ELSE {FlowData(1, "TCP", 15, 8, NoOverrides)}

\* ------------------------------------------------------------------------
\* Actions
\* ------------------------------------------------------------------------
DoPredict(d, limit) ==
    /\ ncalls < limit
    /\ \E inserted \in InsertOutcomes(service.engine) :
          LET r == PredictPersist(service, FlowFeatures(d), inserted)
          IN /\ service' = r.service
             /\ last' = r.call
    /\ ncalls' = ncalls + 1
    /\ UNCHANGED <<model_dir, env_thresh, ntrains, calls, trainer>>

DoTrain ==
    /\ ntrains < MaxTrains
    /\ LET r == Train(service, model_dir, env_thresh)
       IN /\ service' = r.service
          /\ model_dir' = r.model_dir
    /\ last' = NoCall
    /\ ntrains' = ntrains + 1
    /\ UNCHANGED <<env_thresh, ncalls, calls, trainer>>

\* ------------------------------------------------------------------------
\* Specifications
\* ------------------------------------------------------------------------
\* the service from construction on: any model directory, training, predictions
Init ==
    /\ env_thresh \in EnvThresholds
    /\ model_dir \in {EmptyDir, TrainedDir(DsBoth), TrainedDir(DsNormal)}
    /\ \E allow_dummy \in BOOLEAN, dataset \in Datasets :
          service = Construct(allow_dummy, env_thresh, dataset, model_dir)
    /\ last = NoCall
    /\ ncalls = 0
    /\ ntrains = 0
    /\ calls = [t \in Threads |-> IdleCall]
    /\ trainer = IdleTrainer

ServicePredict == \E d \in ServiceInputs : DoPredict(d, MaxCalls)

Next == ServicePredict \/ DoTrain

Spec == Init /\ [][Next]_vars

\* the rate-delta tracker of a service started on a trained model directory
InitTracker ==
    /\ env_thresh = None
    /\ model_dir = TrainedDir(DsBoth)
    /\ service = Construct(TRUE, env_thresh, DsBoth, model_dir)
    /\ last = NoCall
    /\ ncalls = 0
    /\ ntrains = 0
    /\ calls = [t \in Threads |-> IdleCall]
    /\ trainer = IdleTrainer

TrackerPredict == \E d \in TrackerInputs : DoPredict(d, MaxSightings)

NextTracker == TrackerPredict

SpecTracker == InitTracker /\ [][NextTracker]_vars

\* predictions of a service with or without a score sink, on a trained or an
\* empty model directory
InitSink ==
    /\ env_thresh = None
    /\ model_dir \in {EmptyDir, TrainedDir(DsBoth)}
    /\ \E database_url \in {None, Some("postgresql://")} :
          service = WithEngine(Construct(TRUE, env_thresh, DsBoth, model_dir), database_url)
    /\ last = NoCall
    /\ ncalls = 0
    /\ ntrains = 0
    /\ calls = [t \in Threads |-> IdleCall]
    /\ trainer = IdleTrainer

SinkPredict == \E d \in ServiceInputs : DoPredict(d, MaxCalls)

NextSink == SinkPredict

SpecSink == InitSink /\ [][NextSink]_vars

\* the isolation score on any calibration: a trained directory whose meta.json
\* is missing or carries a span around, beside or collapsed onto the forest's
\* decision values
MetaSpans(dir) ==
    LET offset == Val(dir.isolation_forest).offset
    IN {[dir EXCEPT !.meta = Some([Val(dir.meta) EXCEPT !.iso_decision_min = offset - s[1],
                                                        !.iso_decision_max = offset - s[2]])] :
           s \in {<<250000, 0>>, <<150000, 50000>>, <<100000, 100000>>, <<0, 100000>>,
                  <<-50000, -150000>>}}

InitScore ==
    /\ env_thresh = None
    /\ model_dir \in {TrainedDir(DsBoth), TrainedDir(DsNormal),
                     [TrainedDir(DsBoth) EXCEPT !.meta = None]}
                       \cup MetaSpans(TrainedDir(DsBoth))
    /\ \E dataset \in {DsBoth, DsNormal} :
          service = Construct(TRUE, env_thresh, dataset, model_dir)
    /\ last = NoCall
    /\ ncalls = 0
    /\ ntrains = 0
    /\ calls = [t \in Threads |-> IdleCall]
    /\ trainer = IdleTrainer

ScorePredict == \E d \in ServiceInputs : DoPredict(d, MaxCalls)

NextScore == ScorePredict \/ DoTrain

SpecScore == InitScore /\ [][NextScore]_vars

\* flow records with and without duration and timestamps, as the handlers
\* receive them: the payload is validated into a FlowFeatures, then predicted
RecordInputs ==
    {[FlowData(1, "tcp", 10, 8, NoOverrides)
         EXCEPT !.duration = duration, !.start_time = start_time, !.end_time = end_time] :
       duration \in {None, Some(0), Some(45)},
       start_time \in {None, Some(100), Some(130)},
       end_time \in {None, Some(100), Some(130), Some(160)}}

InitRecord ==
    /\ env_thresh = None
    /\ model_dir = TrainedDir(DsBoth)
    /\ service = Construct(TRUE, env_thresh, DsBoth, model_dir)
    /\ last = NoCall
    /\ ncalls = 0
    /\ ntrains = 0
    /\ calls = [t \in Threads |-> IdleCall]
    /\ trainer = [pc |-> "idle", data |-> FlowData(1, "tcp", 10, 8, NoOverrides)]

\* a request arrives with its JSON object
RecordRequest ==
    /\ trainer.pc = "idle"
    /\ ncalls < MaxCalls
    /\ \E d \in RecordInputs : trainer' = [pc |-> "request", data |-> d]
    /\ UNCHANGED <<service, model_dir, env_thresh, last, ncalls, ntrains, calls>>

\* FlowFeatures(**data) and predict on the record
RecordPredict ==
    /\ trainer.pc = "request"
    /\ LET r == PredictPersist(service, FlowFeatures(trainer.data), FALSE)
       IN /\ service' = r.service
          /\ last' = r.call
    /\ ncalls' = ncalls + 1
    /\ trainer' = [trainer EXCEPT !.pc = "idle"]
    /\ UNCHANGED <<model_dir, env_thresh, ntrains, calls>>

NextRecord == RecordRequest \/ RecordPredict

SpecRecord == InitRecord /\ [][NextRecord]_vars

\* ------------------------------------------------------------------------
\* train.py: the windows of the sequence reconstruction model
\* ------------------------------------------------------------------------
\* the labels of the sorted table, row by row, and SEQ_LEN
LabelSeqs == UNION {[1..n -> {0, 1}] : n \in 0..MaxRows}

\* data[i:i+seq_len], as the (1-based) positions of its rows
Window(i, seq_len) == [j \in 1..seq_len |-> i + j]

InitSequences ==
    /\ env_thresh = None
    /\ model_dir = EmptyDir
    /\ service = Construct(TRUE, env_thresh, DsBoth, model_dir)
    /\ last = NoCall
    /\ ncalls = 0
    /\ ntrains = 0
    /\ calls = [t \in Threads |-> IdleCall]
    /\ \E labels \in LabelSeqs, seq_len \in 1..MaxSeqLen :
          trainer = [pc |-> "create", labels |-> labels, seq_len |-> seq_len, i |-> 0,
                     X |-> <<>>, y |-> <<>>, X_seq_normal |-> <<>>]

\* create_sequences, one turn of `for i in range(len(data) - seq_len)`
SequenceAppend ==
    /\ trainer.pc = "create"
    /\ trainer.i < Len(trainer.labels) - trainer.seq_len
    /\ trainer' = [trainer EXCEPT
                      !.X = Append(@, Window(trainer.i, trainer.seq_len)),
                      !.y = Append(@, trainer.labels[trainer.i + trainer.seq_len + 1]),
                      !.i = @ + 1]
    /\ UNCHANGED <<service, model_dir, env_thresh, last, ncalls, ntrains, calls>>

\* X_seq_normal = X_seq[y_seq == 0], once the loop has ended
SequenceSelect ==
    /\ trainer.pc = "create"
    /\ trainer.i >= Len(trainer.labels) - trainer.seq_len
    /\ trainer' = [trainer EXCEPT
                      !.pc = "fit",
                      !.X_seq_normal =
                          SelectSeq([k \in 1..Len(trainer.X) |-> k], LAMBDA k : trainer.y[k] = 0)]
    /\ UNCHANGED <<service, model_dir, env_thresh, last, ncalls, ntrains, calls>>

NextSequences == SequenceAppend \/ SequenceSelect

SpecSequences == InitSequences /\ [][NextSequences]_vars

\* ------------------------------------------------------------------------
\* the rows of a training table replayed to predict
\* ------------------------------------------------------------------------
\* tables of up to MaxReplay rows: a flow key with two rate pairs and start
\* times that are missing, equal or apart, and rows of a second key between
ReplayRows ==
    {Row(1, "TCP", rate[1], rate[2], start, 0) :
        rate \in {<<10, 8>>, <<20, 0>>}, start \in {None, Some(1), Some(2)}}
    \cup {Row(2, "TCP", 10, 8, start, 0) : start \in {None, Some(1)}}
ReplayTables == UNION {[1..n -> ReplayRows] : n \in 1..MaxReplay}

\* the four values _resolve_flow_deltas returned to _transform_flow
ReturnedDeltas(call) ==
    [pps_delta |-> call.row.pps_delta, bps_delta |-> call.row.bps_delta,
     pps_cum_increase |-> call.row.pps_cum_increase,
     bps_cum_increase |-> call.row.bps_cum_increase]

InitReplay ==
    /\ env_thresh = None
    /\ model_dir = TrainedDir(DsBoth)
    /\ service = Construct(TRUE, env_thresh, DsBoth, model_dir)
    /\ last = NoCall
    /\ ncalls = 0
    /\ ntrains = 0
    /\ calls = [t \in Threads |-> IdleCall]
    /\ \E rows \in ReplayTables : trainer = [pc |-> "replay", rows |-> rows, out |-> <<>>]

\* predict on a row whose earlier rows of the same key, in (start time, row)
\* order, were all fed, without override fields
ReplayFeed ==
    /\ trainer.pc = "replay"
    /\ \E i \in (1..Len(trainer.rows)) \ DOMAIN trainer.out :
          /\ GroupBefore(trainer.rows, i) \subseteq DOMAIN trainer.out
          /\ LET row == trainer.rows[i]
                 r == PredictPersist(service,
                          FlowFeatures(FlowData(row.src_ip, row.proto, row.pps, row.bps,
                                                NoOverrides)), FALSE)
             IN /\ service' = r.service
                /\ last' = r.call
                /\ trainer' = [trainer EXCEPT
                       !.out = [k \in DOMAIN trainer.out \cup {i} |->
                                   IF k = i THEN ReturnedDeltas(r.call) ELSE trainer.out[k]]]
    /\ ncalls' = ncalls + 1
    /\ UNCHANGED <<model_dir, env_thresh, ntrains, calls>>

NextReplay == ReplayFeed

SpecReplay == InitReplay /\ [][NextReplay]_vars

\* ------------------------------------------------------------------------
\* mqtt_bridge.py: a request message, line by line
\* ------------------------------------------------------------------------
\* a line of the payload: blank, text that is no JSON, JSON that is no object,
\* or an object; the object's flow is an object with or without the required
\* fields, or no object at all ({"flow": 5})
MessageLine(json, flow, fields, src) ==
    [json |-> json, flow |-> flow, fields |-> fields,
     data |-> FlowData(src, "tcp", 10, 8, NoOverrides)]
MessageLines ==
    {MessageLine("blank", "none", FALSE, 1), MessageLine("text", "none", FALSE, 1),
     MessageLine("array", "none", FALSE, 1), MessageLine("object", "object", TRUE, 1),
     MessageLine("object", "object", TRUE, 2), MessageLine("object", "object", FALSE, 1),
     MessageLine("object", "scalar", FALSE, 1)}
Messages == UNION {[1..n -> MessageLines] : n \in 1..MaxLines}

\* the response of lines 161-183, before _publish_result drops the None values
Response(i, call, fields) ==
    IF fields /\ call.kind \in {"model", "dummy"}
    THEN [line |-> i, is_anom |-> call.result.is_anom, iso_score |-> call.result.iso_score,
          hybrid_score |-> call.result.hybrid_score, error |-> FALSE]
    ELSE [line |-> i, is_anom |-> FALSE, iso_score |-> RZero, hybrid_score |-> RZero,
          error |-> TRUE]

InitBridge ==
    /\ env_thresh = None
    /\ model_dir \in {EmptyDir, TrainedDir(DsBoth)}
    /\ \E allow_dummy \in BOOLEAN : service = Construct(allow_dummy, env_thresh, DsBoth, model_dir)
    /\ last = NoCall
    /\ ncalls = 0
    /\ ntrains = 0
    /\ calls = [t \in Threads |-> IdleCall]
    /\ \E lines \in Messages :
          trainer = [pc |-> "on_message", lines |-> lines, i |-> 1, published |-> <<>>]

\* _on_message, lines 117-121: the loop goes to the next line or ends
BridgeAdvance(published) ==
    trainer' = [trainer EXCEPT !.pc = IF trainer.i = Len(trainer.lines) THEN "done" ELSE @,
                               !.i = @ + 1, !.published = published]

\* a blank line (119-120), a JSONDecodeError (127-131) or a value that is no
\* object (148-150): nothing is published
BridgeSkip ==
    /\ trainer.pc = "on_message"
    /\ trainer.lines[trainer.i].json \in {"blank", "text", "array"}
    /\ BridgeAdvance(trainer.published)
    /\ UNCHANGED <<service, model_dir, env_thresh, last, ncalls, ntrains, calls>>

\* lines 140-185 for an object whose flow is an object: FlowFeatures(**flow_data)
\* and predict inside the try, the response or the fallback published
BridgeProcess ==
    /\ trainer.pc = "on_message"
    /\ trainer.lines[trainer.i].json = "object"
    /\ trainer.lines[trainer.i].flow = "object"
    /\ IF trainer.lines[trainer.i].fields
       THEN LET r == PredictPersist(service, FlowFeatures(trainer.lines[trainer.i].data), FALSE)
            IN /\ service' = r.service
               /\ last' = r.call
               /\ ncalls' = ncalls + 1
               /\ BridgeAdvance(Append(trainer.published, Response(trainer.i, r.call, TRUE)))
       ELSE /\ BridgeAdvance(Append(trainer.published, Response(trainer.i, NoCall, FALSE)))
            /\ UNCHANGED <<service, last, ncalls>>
    /\ UNCHANGED <<model_dir, env_thresh, ntrains, calls>>

\* lines 140-147 for an object whose "flow" is no object and that has no
\* timestamp: flow_data.get("start_time") raises AttributeError before the try
\* of line 152, and the exception leaves _process_line and _on_message
BridgeRaise ==
    /\ trainer.pc = "on_message"
    /\ trainer.lines[trainer.i].json = "object"
    /\ trainer.lines[trainer.i].flow = "scalar"
    /\ trainer' = [trainer EXCEPT !.pc = "raised"]
    /\ UNCHANGED <<service, model_dir, env_thresh, last, ncalls, ntrains, calls>>

NextBridge == BridgeSkip \/ BridgeProcess \/ BridgeRaise

SpecBridge == InitBridge /\ [][NextBridge]_vars

\* ------------------------------------------------------------------------
\* predict and train statement by statement, for calls that overlap
\* ------------------------------------------------------------------------
SetCall(t, c) == calls' = [calls EXCEPT ![t] = c]
Others == <<model_dir, env_thresh, last, ntrains, trainer>>

\* predict, lines 382-389: the model_loaded test
PredictBegin(t, d) ==
    /\ calls[t].pc = "idle"
    /\ ncalls' = ncalls + 1
    /\ LET c == [IdleCall EXCEPT !.flow = FlowFeatures(d)]
       IN IF ~service.model_loaded
          THEN IF ~service.allow_dummy THEN SetCall(t, [c EXCEPT !.pc = "done", !.kind = "raise"])
               ELSE SetCall(t, [c EXCEPT !.pc = "done", !.kind = "dummy", !.result = DummyResult])
          ELSE SetCall(t, [c EXCEPT !.pc = "transform"])
    /\ UNCHANGED <<service>> /\ UNCHANGED Others

\* _transform_flow line 552 and _resolve_flow_deltas lines 518-521: the read
PredictRead(t) ==
    /\ calls[t].pc = "transform"
    /\ LET c == calls[t]
       IN IF IsNone(service.enc_src_ip) \/ IsNone(service.enc_dst_ip)
             \/ IsNone(service.enc_proto) \/ IsNone(service.scaler)
          THEN SetCall(t, [c EXCEPT !.pc = "done", !.kind = "raise"])
          ELSE SetCall(t, [c EXCEPT !.pc = "resolve",
                              !.prev = PrevGet(service.prev_flow_stats, _flow_key(c.flow),
                                               c.flow.pps, c.flow.bps)])
    /\ UNCHANGED <<service, ncalls>> /\ UNCHANGED Others

\* _resolve_flow_deltas lines 522-549: the deltas from the tuple read, the write
PredictWrite(t) ==
    /\ calls[t].pc = "resolve"
    /\ LET c == calls[t]
           d == ResolveDeltas(c.prev, c.flow, c.flow.pps, c.flow.bps)
       IN /\ service' = [service EXCEPT !.prev_flow_stats =
                            StoreStats(service.prev_flow_stats, _flow_key(c.flow),
                                       c.flow.pps, c.flow.bps, d)]
          /\ SetCall(t, [c EXCEPT !.pc = "encode",
                            !.row = [NoRow EXCEPT !.pps_delta = d.pps_delta,
                                                  !.bps_delta = d.bps_delta,
                                                  !.pps_cum_increase = d.pps_cum_increase,
                                                  !.bps_cum_increase = d.bps_cum_increase]])
    /\ UNCHANGED <<ncalls>> /\ UNCHANGED Others

\* _transform_flow lines 579-587: the encoders and the scaler as they are now
PredictEncode(t) ==
    /\ calls[t].pc = "encode"
    /\ LET c == calls[t]
           row == EncodeRow(Encoders(service), c.flow, c.row)
       IN SetCall(t, [c EXCEPT !.pc = "iso", !.row = row,
                         !.vec = ScalerTransform(Val(service.scaler), row),
                         !.used = [c.used EXCEPT !.enc_src_ip = service.enc_src_ip,
                                                 !.enc_dst_ip = service.enc_dst_ip,
                                                 !.enc_proto = service.enc_proto,
                                                 !.scaler = service.scaler]])
    /\ UNCHANGED <<service, ncalls>> /\ UNCHANGED Others

\* predict line 394
PredictIso(t) ==
    /\ calls[t].pc = "iso"
    /\ LET c == calls[t]
       IN SetCall(t, [c EXCEPT !.pc = "rf",
                         !.result.iso_score =
                             IsoScore(service.iso_model, service.iso_decision_min,
                                      service.iso_decision_max, c.vec),
                         !.used = [c.used EXCEPT !.iso_model = service.iso_model,
                                                 !.iso_decision_min = service.iso_decision_min,
                                                 !.iso_decision_max = service.iso_decision_max]])
    /\ UNCHANGED <<service, ncalls>> /\ UNCHANGED Others

\* predict line 395
PredictRf(t) ==
    /\ calls[t].pc = "rf"
    /\ LET c == calls[t]
       IN SetCall(t, [c EXCEPT !.pc = "verdict",
                         !.result.rf_score = RfScore(service.rf_model, c.vec),
                         !.used = [c.used EXCEPT !.rf_model = service.rf_model]])
    /\ UNCHANGED <<service, ncalls>> /\ UNCHANGED Others

\* predict lines 396-426
PredictVerdict(t) ==
    /\ calls[t].pc = "verdict"
    /\ LET c == calls[t]
           hybrid_score == Fuse(c.result.iso_score, c.result.rf_score)
       IN SetCall(t, [c EXCEPT !.pc = "done", !.kind = "model",
                         !.result.hybrid_score = hybrid_score,
                         !.result.is_anom = Verdict(hybrid_score, service.threshold),
                         !.used = [c.used EXCEPT !.threshold = service.threshold]])
    /\ UNCHANGED <<service, ncalls>> /\ UNCHANGED Others

TrainerAt(pc) == trainer.pc = pc
TrainerTo(pc) == trainer' = [trainer EXCEPT !.pc = pc]
\* joblib.dump / write_text: the files are written in place, one after the other
TrainerWrote(pc, files) == trainer' = [trainer EXCEPT !.pc = pc, !.written = @ \cup files]
TrainRows == PrepareRows(service.dataset.rows)
Frame == <<env_thresh, last, ncalls, calls>>

\* train lines 226-287: the checks, the encoders
TrainEncoders ==
    /\ TrainerAt("idle") /\ ntrains < MaxTrains
    /\ ntrains' = ntrains + 1
    /\ IF ~service.dataset.exists \/ ~service.dataset.columns_ok
       THEN /\ UNCHANGED service
            /\ trainer' = [pc |-> "idle", service |-> service, model_dir |-> model_dir,
                           written |-> {}]
       ELSE /\ service' = TrainFitEncoders(service, TrainRows)
            /\ trainer' = [pc |-> "scaler", service |-> service, model_dir |-> model_dir,
                           written |-> {}]
    /\ UNCHANGED model_dir /\ UNCHANGED Frame

\* train lines 313-327: the scaler, the encoder and scaler files
TrainScaler ==
    /\ TrainerAt("scaler")
    /\ IF \A i \in 1..Len(TrainRows) : TrainRows[i].label # 0
       THEN TrainerTo("idle") /\ UNCHANGED <<service, model_dir>>
       ELSE /\ service' = [service EXCEPT !.scaler = Some(TrainTables(service, TrainRows).scaler)]
            /\ model_dir' = [model_dir EXCEPT !.enc_src_ip = service.enc_src_ip,
                                              !.enc_dst_ip = service.enc_dst_ip,
                                              !.enc_proto = service.enc_proto,
                                              !.scaler = service'.scaler]
            /\ TrainerWrote("iso", {"enc_src_ip", "enc_dst_ip", "enc_proto", "scaler"})
    /\ ntrains' = ntrains /\ UNCHANGED Frame

\* train lines 329-338
TrainIsoStep ==
    /\ TrainerAt("iso")
    /\ service' = TrainIso(service, TrainTables(service, TrainRows))
    /\ model_dir' = [model_dir EXCEPT !.isolation_forest = service'.iso_model]
    /\ TrainerWrote("rf_new", {"isolation_forest"})
    /\ ntrains' = ntrains /\ UNCHANGED Frame

\* train lines 341-348: the classifier object, not fitted yet
TrainRfNew ==
    /\ TrainerAt("rf_new")
    /\ service' = [service EXCEPT !.rf_model = Some(RandomForestNew)]
    /\ TrainerTo("rf_fit")
    /\ ntrains' = ntrains /\ UNCHANGED model_dir /\ UNCHANGED Frame

\* train lines 349-355
TrainRfFit ==
    /\ TrainerAt("rf_fit")
    /\ service' = TrainRf(service, TrainTables(service, TrainRows))
    /\ model_dir' = IF IsNone(service'.rf_model) THEN model_dir
                    ELSE [model_dir EXCEPT !.rf_model = service'.rf_model]
    /\ TrainerWrote("threshold", IF IsNone(service'.rf_model) THEN {} ELSE {"rf_model"})
    /\ ntrains' = ntrains /\ UNCHANGED Frame

\* train lines 357-364
TrainThreshold ==
    /\ TrainerAt("threshold")
    /\ LET t == TrainTables(service, TrainRows)
       IN service' = [service EXCEPT !.threshold =
                         CalculateThreshold(service, t.scaled_all, t.labels_all)]
    /\ model_dir' = [model_dir EXCEPT !.meta = Some(MetaOf(service'))]
    /\ TrainerWrote("load", {"meta"})
    /\ ntrains' = ntrains /\ UNCHANGED Frame

\* _load_artifacts lines 432-452
LoadFiles ==
    /\ TrainerAt("load")
    /\ IF IsNone(model_dir.enc_src_ip) \/ IsNone(model_dir.enc_dst_ip)
          \/ IsNone(model_dir.enc_proto) \/ IsNone(model_dir.scaler)
          \/ IsNone(model_dir.isolation_forest)
       THEN /\ service' = [service EXCEPT !.model_loaded = FALSE,
                                          !.prev_flow_stats = EmptyStats]
            /\ TrainerTo("idle")
       ELSE /\ service' = [service EXCEPT !.enc_src_ip = model_dir.enc_src_ip,
                                          !.enc_dst_ip = model_dir.enc_dst_ip,
                                          !.enc_proto = model_dir.enc_proto,
                                          !.scaler = model_dir.scaler,
                                          !.iso_model = model_dir.isolation_forest]
            /\ TrainerTo("meta")
    /\ ntrains' = ntrains /\ UNCHANGED model_dir /\ UNCHANGED Frame

\* _load_artifacts lines 454-473
LoadThreshold ==
    /\ TrainerAt("meta")
    /\ service' = LoadEnvThreshold(LoadMeta(service, model_dir.meta), env_thresh)
    /\ TrainerTo("rf")
    /\ ntrains' = ntrains /\ UNCHANGED model_dir /\ UNCHANGED Frame

\* _load_artifacts lines 475-482
LoadRf ==
    /\ TrainerAt("rf")
    /\ service' = [service EXCEPT !.rf_model = model_dir.rf_model]
    /\ TrainerTo("clear")
    /\ ntrains' = ntrains /\ UNCHANGED model_dir /\ UNCHANGED Frame

\* _load_artifacts lines 484-486
LoadClear ==
    /\ TrainerAt("clear")
    /\ service' = [service EXCEPT !.prev_flow_stats = EmptyStats,
                                  !.model_loaded = ~IsNone(service.iso_model)]
    /\ TrainerTo("idle")
    /\ ntrains' = ntrains /\ UNCHANGED model_dir /\ UNCHANGED Frame

\* a service started on the model directory of an earlier run, two handler
\* threads each serving one predict request and one thread calling train on
\* new data
InitOverlap ==
    /\ env_thresh = None
    /\ model_dir = TrainedDir(DsNormal)
    /\ service = Construct(TRUE, env_thresh, DsBoth, model_dir)
    /\ last = NoCall
    /\ ncalls = 0
    /\ ntrains = 0
    /\ calls = [t \in Threads |-> IdleCall]
    /\ trainer = IdleTrainer

PredictStep(t) ==
    \/ \E d \in ThreadInputs(t) : PredictBegin(t, d)
    \/ PredictRead(t)
    \/ PredictWrite(t)
    \/ PredictEncode(t)
    \/ PredictIso(t)
    \/ PredictRf(t)
    \/ PredictVerdict(t)

TrainStep ==
    \/ TrainEncoders
    \/ TrainScaler
    \/ TrainIsoStep
    \/ TrainRfNew
    \/ TrainRfFit
    \/ TrainThreshold
    \/ LoadFiles
    \/ LoadThreshold
    \/ LoadRf
    \/ LoadClear

NextOverlap == (\E t \in Threads : PredictStep(t)) \/ TrainStep

SpecOverlap == InitOverlap /\ [][NextOverlap]_vars

\* one request of the REST handler thread served while train runs
NextRetrain == PredictStep("rest") \/ TrainStep

SpecRetrain == InitOverlap /\ [][NextRetrain]_vars

\* ------------------------------------------------------------------------
\* train stopped by an exception
\* ------------------------------------------------------------------------
\* train lines 329-366 hold no try/except: an exception of a statement after
\* the first files were written (IsolationForest.fit, RandomForestClassifier.fit,
\* joblib.dump, write_text, joblib.load) leaves train at once; the attributes
\* assigned and the files written so far stay as they are
TrainRaise ==
    /\ trainer.pc \in {"iso", "rf_new", "rf_fit", "threshold", "load", "meta", "rf", "clear"}
    /\ TrainerTo("raised")
    /\ UNCHANGED <<service, model_dir, ntrains>> /\ UNCHANGED Frame

\* one train call on any service, which an exception may stop
NextTrainRaise == TrainStep \/ TrainRaise

SpecTrainRaise == Init /\ [][NextTrainRaise]_vars

\* ------------------------------------------------------------------------
\* construction
\* ------------------------------------------------------------------------
\* what ANOMALY_THRESHOLD can hold: unset, a number, text that is no number
EnvSettings == EnvThresholds \cup {Some([parses |-> FALSE, value |-> 0])}

\* meta.json of a directory: as train wrote it, deleted, or no longer JSON
MetaVariants(dir) ==
    {dir, [dir EXCEPT !.meta = None],
     [dir EXCEPT !.meta = Some([Val(dir.meta) EXCEPT !.parses = FALSE])]}

LoadDirs == {EmptyDir} \cup MetaVariants(TrainedDir(DsBoth)) \cup MetaVariants(TrainedDir(DsNormal))

\* from_env, lines 201-216: float(os.getenv("ANOMALY_THRESHOLD", "0.51")) raises
\* ValueError on text that is no number, before the constructor is called
FromEnv ==
    /\ TrainerAt("from_env")
    /\ IF IsNone(env_thresh) THEN TrainerTo("init") /\ UNCHANGED service
       ELSE IF ~Val(env_thresh).parses THEN TrainerTo("raised") /\ UNCHANGED service
       ELSE /\ service' = [service EXCEPT !.threshold = Val(env_thresh).value]
            /\ TrainerTo("init")
    /\ UNCHANGED <<model_dir, env_thresh, last, ncalls, ntrains, calls>>

\* __init__ line 194: the constructor ends with _load_artifacts
InitLoad ==
    /\ TrainerAt("init")
    /\ service' = LoadArtifacts(service, model_dir, env_thresh)
    /\ trainer' = [pc |-> "idle", service |-> service, model_dir |-> model_dir, written |-> {}]
    /\ UNCHANGED <<model_dir, env_thresh, last, ncalls, ntrains, calls>>

\* the construction of a service, through from_env or with a threshold
\* argument, on any model directory and any setting of ANOMALY_THRESHOLD
InitConstruct ==
    /\ env_thresh \in EnvSettings
    /\ model_dir \in LoadDirs
    /\ \E allow_dummy \in BOOLEAN, dataset \in Datasets, thresh \in {51, 30} :
          service = NewService(allow_dummy, thresh, dataset)
    /\ trainer \in {[IdleTrainer EXCEPT !.pc = pc] :
                        pc \in IF service.threshold = 51 THEN {"init", "from_env"} ELSE {"init"}}
    /\ last = NoCall
    /\ ncalls = 0
    /\ ntrains = 0
    /\ calls = [t \in Threads |-> IdleCall]

NextConstruct == FromEnv \/ InitLoad

SpecConstruct == InitConstruct /\ [][NextConstruct]_vars

\* ------------------------------------------------------------------------
\* _calculate_threshold, candidate by candidate
\* ------------------------------------------------------------------------
\* labelled hybrid scores: at each of three scores (0.05, below every candidate,
\* 0.305 and 0.805) up to MaxPositives rows of label 1 and no or MaxNegatives
\* rows of label 0
ScoreLevels == <<(<<5, 100>>), (<<305, 1000>>), (<<805, 1000>>)>>
Repeat(v, n) == [i \in 1..n |-> v]
ScoreTable(p, q) ==
    Repeat([score |-> ScoreLevels[1], label |-> 1], p[1])
    \o Repeat([score |-> ScoreLevels[1], label |-> 0], q[1])
    \o Repeat([score |-> ScoreLevels[2], label |-> 1], p[2])
    \o Repeat([score |-> ScoreLevels[2], label |-> 0], q[2])
    \o Repeat([score |-> ScoreLevels[3], label |-> 1], p[3])
    \o Repeat([score |-> ScoreLevels[3], label |-> 0], q[3])
ScoreTables ==
    {ScoreTable(p, q) : p \in [1..3 -> 0..MaxPositives], q \in [1..3 -> {0, MaxNegatives}]}

CalibrateCall(table) ==
    [pc |-> "start", k |-> 0, best_thresh |-> 0, best_f1 |-> NoF1,
     hybrid_scores |-> AsSeq([i \in 1..Len(table) |-> table[i].score]),
     labels |-> AsSeq([i \in 1..Len(table) |-> table[i].label])]

CalibrateBegin_zero ==
    /\ TrainerAt("start")
    /\ IF Len(trainer.hybrid_scores) = 0 \/ Len(trainer.labels) = 0
          \/ Cardinality(Range(trainer.labels)) < 2
       THEN trainer' = [trainer EXCEPT !.pc = "done", !.best_thresh = service.threshold]
       ELSE trainer' = [trainer EXCEPT !.pc = "loop", !.k = 1,
                                       !.best_thresh = service.threshold,
                                       !.best_f1 = [tp |-> 0, fp |-> 0, fn |-> 0]]
    /\ UNCHANGED <<service, model_dir, env_thresh, last, ncalls, ntrains, calls>>

\* lines 640-654: the configured threshold is returned for no data or one
\* class; otherwise the loop starts from it with best_f1 = -1.0
CalibrateBegin ==
    /\ TrainerAt("start")
    /\ IF Len(trainer.hybrid_scores) = 0 \/ Len(trainer.labels) = 0
          \/ Cardinality(Range(trainer.labels)) < 2
       THEN trainer' = [trainer EXCEPT !.pc = "done", !.best_thresh = service.threshold]
       ELSE trainer' = [trainer EXCEPT !.pc = "loop", !.k = 1,
                                       !.best_thresh = service.threshold,
                                       !.best_f1 = NoF1]
    /\ UNCHANGED <<service, model_dir, env_thresh, last, ncalls, ntrains, calls>>

\* lines 655-676: one candidate; after the last one best_thresh is returned
CalibrateCandidate ==
    /\ TrainerAt("loop")
    /\ LET best == LoopStep(trainer.hybrid_scores, trainer.labels,
                            [thresh |-> trainer.best_thresh, f1 |-> trainer.best_f1],
                            trainer.k)
       IN trainer' = [trainer EXCEPT !.best_thresh = best.thresh, !.best_f1 = best.f1,
                                     !.k = IF trainer.k = 90 THEN 90 ELSE trainer.k + 1,
                                     !.pc = IF trainer.k = 90 THEN "done" ELSE "loop"]
    /\ UNCHANGED <<service, model_dir, env_thresh, last, ncalls, ntrains, calls>>

\* _calculate_threshold called with any of the tables and a configured
\* threshold of 0.05 or 0.51
InitCalibrate ==
    /\ env_thresh = None
    /\ model_dir = EmptyDir
    /\ \E thresh \in {5, 51} : service = NewService(TRUE, thresh, DsMissing)
    /\ \E table \in ScoreTables : trainer = CalibrateCall(table)
    /\ last = NoCall
    /\ ncalls = 0
    /\ ntrains = 0
    /\ calls = [t \in Threads |-> IdleCall]

NextCalibrate == CalibrateBegin \/ CalibrateCandidate

SpecCalibrate == InitCalibrate /\ [][NextCalibrate]_vars

\* ------------------------------------------------------------------------
\* Properties
\* ------------------------------------------------------------------------
LastModel == last.kind = "model"
LastKey == _flow_key(last.flow)
LastVec == ScalerTransform(Val(service.scaler), last.row)
NoOverrideFields(f) ==
    /\ IsNone(f.pps_delta) /\ IsNone(f.bps_delta)
    /\ IsNone(f.pps_cum_increase) /\ IsNone(f.bps_cum_increase)

\* C1: a predict call without override fields yields, on the first sighting of
\* its flow key, pps_delta = 0 and pps_cum_increase = 0, and on a later sighting
\* pps_delta = pps - (pps of the previous call for the key) and
\* pps_cum_increase = previous pps_cum_increase + max(0, pps_delta); same for
\* bps.  The previous call's pps and cumulative sums are the stored tuple.
C1_DeltasFromPreviousCall ==
    (LastModel /\ NoOverrideFields(last.flow)) =>
        /\ ~last.tracked =>
              /\ last.row.pps_delta = 0 /\ last.row.pps_cum_increase = 0
              /\ last.row.bps_delta = 0 /\ last.row.bps_cum_increase = 0
        /\ last.tracked =>
              /\ last.row.pps_delta = last.flow.pps - last.prev[1]
              /\ last.row.bps_delta = last.flow.bps - last.prev[2]
              /\ last.row.pps_cum_increase = last.prev[3] + Max2(0, last.row.pps_delta)
              /\ last.row.bps_cum_increase = last.prev[4] + Max2(0, last.row.bps_delta)
        /\ service.prev_flow_stats[LastKey] =
              <<last.flow.pps, last.flow.bps, last.row.pps_cum_increase,
                last.row.bps_cum_increase>>

\* the end of the sequence pps [10, 15, 12, 20]: delta 8 and cumulative increase 13
C1_Witness ==
    /\ LastModel /\ NoOverrideFields(last.flow) /\ last.tracked
    /\ last.prev[1] = 12 /\ last.prev[3] = 5 /\ last.flow.pps = 20
    /\ last.row.pps_delta = 8 /\ last.row.pps_cum_increase = 13
    /\ ncalls = 4

\* C8 as stated: after every predict call the cumulative sums returned and
\* stored for the key are non-negative and not below the key's previous sums.
C8_CumNonDecreasing ==
    LastModel =>
        /\ last.row.pps_cum_increase >= 0 /\ last.row.bps_cum_increase >= 0
        /\ last.tracked =>
              /\ last.row.pps_cum_increase >= last.prev[3]
              /\ last.row.bps_cum_increase >= last.prev[4]

\* C8 amended: a predict call that carries no pps_cum_increase override returns
\* and stores a pps cumulative sum that is not below the key's previous sum
\* (0 on the first sighting), and non-negative when the previous sum is; same
\* for bps.
C8_CumNonDecreasingWithoutOverride ==
    LastModel =>
        /\ IsNone(last.flow.pps_cum_increase) =>
              /\ last.row.pps_cum_increase >= last.prev[3]
              /\ last.prev[3] >= 0 => last.row.pps_cum_increase >= 0
              /\ service.prev_flow_stats[LastKey][3] = last.row.pps_cum_increase
        /\ IsNone(last.flow.bps_cum_increase) =>
              /\ last.row.bps_cum_increase >= last.prev[4]
              /\ last.prev[4] >= 0 => last.row.bps_cum_increase >= 0
              /\ service.prev_flow_stats[LastKey][4] = last.row.bps_cum_increase
        /\ ~last.tracked => last.prev[3] = 0 /\ last.prev[4] = 0

\* a later sighting with a negative delta keeps the sum
C8_Witness ==
    /\ LastModel /\ last.tracked /\ IsNone(last.flow.pps_cum_increase)
    /\ last.row.pps_delta < 0 /\ last.prev[3] > 0
    /\ last.row.pps_cum_increase = last.prev[3]

\* C9: a supplied override is the value of its feature, a supplied cumulative
\* value is what the key's RateState stores, and a field left null is computed
\* from the previous state.
C9_OverridesReplaceComputed ==
    LastModel =>
        LET f == last.flow
            r == last.row
            prev == IF last.tracked THEN last.prev ELSE <<f.pps, f.bps, 0, 0>>
        IN /\ r.pps_delta = IF IsNone(f.pps_delta) THEN f.pps - prev[1] ELSE Val(f.pps_delta)
           /\ r.bps_delta = IF IsNone(f.bps_delta) THEN f.bps - prev[2] ELSE Val(f.bps_delta)
           /\ r.pps_cum_increase = IF IsNone(f.pps_cum_increase)
                                   THEN prev[3] + Max2(0, r.pps_delta)
                                   ELSE Val(f.pps_cum_increase)
           /\ r.bps_cum_increase = IF IsNone(f.bps_cum_increase)
                                   THEN prev[4] + Max2(0, r.bps_delta)
                                   ELSE Val(f.bps_cum_increase)
           /\ service.prev_flow_stats[LastKey] =
                 <<f.pps, f.bps, r.pps_cum_increase, r.bps_cum_increase>>

\* a cumulative override below the stored sum replaced it
C9_Witness ==
    /\ LastModel /\ last.tracked
    /\ ~IsNone(last.flow.pps_cum_increase) /\ IsNone(last.flow.pps_delta)
    /\ last.prev[3] > Val(last.flow.pps_cum_increase)
    /\ service.prev_flow_stats[LastKey][3] = Val(last.flow.pps_cum_increase)

\* C2: the hybrid score is the mean of two terms: without a classifier rf_score
\* is null and hybrid_score = (iso_score + 0.5) / 2; with a classifier score
\* hybrid_score = (iso_score + clamp(rf_score, 0, 1)) / 2; a loaded model never
\* makes predict raise; and _hybrid_scores gives the same value for the vector.
C2_HybridIsMeanOfTwo ==
    /\ (service.model_loaded /\ last.kind # "none") => LastModel
    /\ LastModel =>
        LET iso == last.result.iso_score
            hyb == last.result.hybrid_score
            rf == last.result.rf_score
            c == IF Val(rf)[1] < 0 THEN <<0, 1>>
                 ELSE IF Val(rf)[1] > Val(rf)[2] THEN <<1, 1>> ELSE Val(rf)
        IN /\ IsNone(service.rf_model) => IsNone(rf)
           /\ IsNone(rf) => hyb[1] * (4 * iso[2]) = (2 * iso[1] + iso[2]) * hyb[2]
           /\ ~IsNone(rf) =>
                 hyb[1] * (2 * iso[2] * c[2]) = (iso[1] * c[2] + c[1] * iso[2]) * hyb[2]
           /\ REq(hyb, HybridScores(service.iso_model, service.rf_model,
                                    service.iso_decision_min, service.iso_decision_max,
                                    <<LastVec>>)[1])

\* a prediction without classifier whose isolation score is not 0
C2_Witness ==
    /\ LastModel /\ IsNone(service.rf_model) /\ IsNone(last.result.rf_score)
    /\ last.result.iso_score[1] > 0

\* C3: every result predict returns, from a loaded model or in dummy mode, has
\* iso_score and hybrid_score in [0, 1] and rf_score null or in [0, 1].
C3_ScoresInUnitInterval ==
    (last.kind \in {"model", "dummy"}) =>
        /\ RIn01(last.result.iso_score)
        /\ RIn01(last.result.hybrid_score)
        /\ ~IsNone(last.result.rf_score) => RIn01(Val(last.result.rf_score))

\* a raw decision value below the calibrated minimum was clamped to 1
C3_Witness ==
    /\ LastModel
    /\ DecisionFunction(Val(service.iso_model), LastVec) < service.iso_decision_min
    /\ ~Degenerate(service.iso_decision_max - service.iso_decision_min)
    /\ REq(last.result.iso_score, ROne)

\* C4: with a model loaded, is_anom is true exactly when hybrid_score >= the
\* service's threshold.
C4_VerdictIffAtLeastThreshold ==
    LastModel =>
        (last.result.is_anom <=>
            last.result.hybrid_score[1] * 100 >= service.threshold * last.result.hybrid_score[2])

\* a hybrid score equal to the threshold is an anomaly
C4_Witness ==
    /\ LastModel /\ last.result.is_anom
    /\ last.result.hybrid_score[1] * 100 = service.threshold * last.result.hybrid_score[2]

\* the code of value v under the fitted classes: its 0-based position, -1 if unseen
CodeOf(classes, v) ==
    IF \E i \in 1..Len(classes) : classes[i] = v
    THEN (CHOOSE i \in 1..Len(classes) : classes[i] = v) - 1
    ELSE -1

\* C5: a value seen during fitting is encoded as its code under the fitted
\* classes, a value not seen is encoded as -1, and predict on a loaded model
\* does not raise whatever src_ip, dst_ip and proto the flow has.
C5_UnseenCategoryIsSentinel ==
    /\ (service.model_loaded /\ last.kind # "none") => LastModel
    /\ LastModel =>
        /\ last.row.src_ip = CodeOf(Val(service.enc_src_ip), last.flow.src_ip)
        /\ last.row.dst_ip = CodeOf(Val(service.enc_dst_ip), last.flow.dst_ip)
        /\ last.row.proto = CodeOf(Val(service.enc_proto), last.flow.proto)

\* a flow with a protocol the encoder never saw was scored
C5_Witness ==
    /\ LastModel /\ last.flow.proto \notin Range(Val(service.enc_proto))
    /\ last.row.proto = -1 /\ last.row.dst_ip >= 0

\* train() ran to its end, which reloads the bundle it wrote (line 366)
TrainedAndReloaded == ntrains >= 1 /\ Train(service, model_dir, env_thresh).raised = "no"

\* after train and reload, a predict call with the flow of the previous one,
\* which was the first sighting of its key since the reload
SameInputAgain ==
    /\ LastModel /\ ~last.tracked
    /\ ncalls' = ncalls + 1
    /\ last'.flow = last.flow
    /\ TrainedAndReloaded

\* C10 as stated: two consecutive predict calls with the same input after train
\* and reload give the same feature vector and the same scores.
C10_SameInputSameScores ==
    [][SameInputAgain => (last'.row = last.row /\ last'.result = last.result)]_vars

\* a delta override repeats the cumulative sum only when it adds nothing to it
RepeatableRate(delta, cum) == IsNone(delta) \/ Val(delta) <= 0 \/ ~IsNone(cum)
RepeatableInput(f) ==
    /\ RepeatableRate(f.pps_delta, f.pps_cum_increase)
    /\ RepeatableRate(f.bps_delta, f.bps_cum_increase)

\* C10 amended: the same holds for every input whose positive pps_delta or
\* bps_delta override, if any, comes with the matching cumulative override.
C10_SameInputSameScoresUnlessDeltaAccumulates ==
    [][(SameInputAgain /\ RepeatableInput(last.flow)) =>
          (last'.row = last.row /\ last'.result = last.result)]_vars

\* after train, the second of two calls with override fields on one key
C10_Witness ==
    /\ TrainedAndReloaded /\ ncalls = 2 /\ LastModel /\ last.tracked
    /\ ~NoOverrideFields(last.flow) /\ RepeatableInput(last.flow)
    /\ last.prev[1] = last.flow.pps /\ last.prev[2] = last.flow.bps
    /\ last.prev[3] = last.row.pps_cum_increase /\ last.prev[4] = last.row.bps_cum_increase

InFlightOn(t, key) == calls[t].pc = "resolve" /\ _flow_key(calls[t].flow) = key
Answered(t) == calls[t].pc = "done" /\ calls[t].kind = "model"

\* the tracker after predict(f1) then predict(f2), one after the other
StatsAfter(svc, f1, f2) == Predict(Predict(svc, f1).service, f2).service.prev_flow_stats

\* C6: the read of the previous state and the write of the new state of a flow
\* key are atomic: two predict calls are never both between their read and
\* their write of one key, and after two calls on one key the stored state is
\* the one some sequential order of the two calls leaves.
C6_ReadWriteAtomic ==
    /\ \A t, u \in Threads :
          t # u => ~(InFlightOn(t, _flow_key(calls[t].flow))
                     /\ InFlightOn(u, _flow_key(calls[t].flow)))
    /\ (ntrains = 0 /\ Answered("rest") /\ Answered("mqtt")
        /\ _flow_key(calls["rest"].flow) = _flow_key(calls["mqtt"].flow)) =>
          LET fresh == [service EXCEPT !.prev_flow_stats = EmptyStats]
              a == calls["rest"].flow
              b == calls["mqtt"].flow
          IN service.prev_flow_stats \in {StatsAfter(fresh, a, b), StatsAfter(fresh, b, a)}

\* the service a train call leaves when nothing overlaps it
TrainedService == Train(trainer.service, trainer.model_dir, env_thresh).service

\* C7: every answered predict call computed its result with the encoders,
\* scaler, isolation forest, classifier, threshold and span of one bundle: the
\* one in memory before train started or the one train leaves.
C7_BundleNeverMixed ==
    \A t \in Threads :
        Answered(t) =>
            IF ntrains = 0 THEN calls[t].used = Bundle(service)
            ELSE calls[t].used \in {Bundle(trainer.service), Bundle(TrainedService)}

\* a readable table with the training columns whose label column holds one value
OneClassTable(ds) ==
    /\ ds.exists /\ ds.columns_ok
    /\ Cardinality({ds.rows[i].label : i \in 1..Len(ds.rows)}) = 1

\* C11: when the training table holds one class, train() does not raise and
\* the service it leaves has no classifier (rf_model is None), whatever the
\* model directory held before.
C11_OneClassLeavesNoClassifier ==
    [][(ntrains' = ntrains + 1 /\ OneClassTable(service.dataset)) =>
          (/\ Train(service, model_dir, env_thresh).raised = "no"
           /\ IsNone(service'.rf_model))]_vars

\* the files of the bundle, and a directory _load_artifacts accepts (432-444)
BundleFiles == DOMAIN EmptyDir
Loadable(dir) ==
    /\ ~IsNone(dir.enc_src_ip) /\ ~IsNone(dir.enc_dst_ip) /\ ~IsNone(dir.enc_proto)
    /\ ~IsNone(dir.scaler) /\ ~IsNone(dir.isolation_forest)

\* C12: when train() stops with an error after it began writing files, the
\* model directory is not a loadable bundle that holds files this run wrote
\* next to files of an earlier run.
C12_BundleAllOrNothing ==
    trainer.pc = "raised" =>
        ~(/\ Loadable(model_dir)
          /\ trainer.written # {}
          /\ \E f \in BundleFiles \ trainer.written : ~IsNone(model_dir[f]))

\* C13: with no model loaded and the dummy result permitted, predict raises
\* nothing and returns, for every input, is_anom false, iso_score 0.0,
\* hybrid_score 0.0 and rf_score 0.5.
C13_DummyIsNeutral ==
    (last.kind # "none" /\ ~service.model_loaded /\ service.allow_dummy) =>
        /\ last.kind = "dummy"
        /\ last.result.is_anom = FALSE
        /\ REq(last.result.iso_score, <<0, 1>>)
        /\ REq(last.result.hybrid_score, <<0, 1>>)
        /\ ~IsNone(last.result.rf_score) /\ REq(Val(last.result.rf_score), <<1, 2>>)

\* a third call on a service without a model, its flow carrying override fields
C13_Witness ==
    /\ ~service.model_loaded /\ service.allow_dummy
    /\ last.kind = "dummy" /\ ncalls = 3 /\ ~NoOverrideFields(last.flow)

\* C14: with no model loaded and the dummy result not permitted, predict
\* raises RuntimeError, and the REST /predict handler answers HTTP 503.
C14_NoModelNoDummyIs503 ==
    (last.kind # "none" /\ ~service.model_loaded /\ ~service.allow_dummy) =>
        (last.kind = "raise" /\ RestPredict(last) = 503)

\* a call on a service constructed without artifacts and without the dummy mode
C14_Witness ==
    /\ ~service.model_loaded /\ ~service.allow_dummy /\ ntrains = 0
    /\ last.kind = "raise" /\ RestPredict(last) = 503

\* the classifier the call scored with raises in predict_proba
ClassifierRaised(t) ==
    /\ ~IsNone(calls[t].used.rf_model)
    /\ PredictProbaRaises(Val(calls[t].used.rf_model))

\* C15: when the classifier raises while scoring, predict still returns a
\* result, with rf_score null and hybrid_score = (iso_score + 0.5) / 2.
C15_ClassifierErrorIsNull ==
    \A t \in Threads :
        (calls[t].pc \in {"verdict", "done"} /\ calls[t].kind # "raise" /\ ClassifierRaised(t)) =>
            /\ IsNone(calls[t].result.rf_score)
            /\ calls[t].pc = "done" =>
                  /\ calls[t].kind = "model"
                  /\ REq(calls[t].result.hybrid_score,
                         RHalf(RAdd(calls[t].result.iso_score, <<1, 2>>)))

\* a call answered after it scored with the classifier train had created and
\* not yet fitted
C15_Witness ==
    \E t \in Threads :
        /\ Answered(t) /\ ClassifierRaised(t)
        /\ IsNone(calls[t].result.rf_score)
        /\ REq(calls[t].result.hybrid_score, RHalf(RAdd(calls[t].result.iso_score, <<1, 2>>)))

\* C16: the result predict returns is the one the scoring gives for the
\* service and the flow, whether the sink wrote the score, failed to write it,
\* or no engine is configured; a failure of the sink is never raised by predict.
C16_SinkNeverChangesResult ==
    [][ncalls' = ncalls + 1 =>
          /\ last'.kind = Predict(service, last'.flow).call.kind
          /\ last'.result = Predict(service, last'.flow).call.result]_vars

\* a scored call whose INSERT failed, after one whose INSERT succeeded
C16_Witness ==
    /\ ~IsNone(service.engine) /\ LastModel /\ ncalls = 2
    /\ IsNone(last.record_id) /\ last.tracked

\* _load_artifacts ran on a directory that holds the five required files
Loaded == trainer.pc = "idle" /\ ntrains = 0 /\ Loadable(model_dir)
MalformedMeta == ~IsNone(model_dir.meta) /\ ~Val(model_dir.meta).parses
DatasetAvailable == service.dataset.exists /\ service.dataset.columns_ok
Span(svc) == <<svc.iso_decision_min, svc.iso_decision_max>>

\* C17: when meta.json is present but malformed, _load_artifacts does not
\* raise; it recomputes the decision-score span from the training dataset
\* when the dataset is available, and otherwise leaves the span as it was.
C17_MalformedMetaRecomputesSpan ==
    (Loaded /\ MalformedMeta) =>
        Span(service) = IF DatasetAvailable
                        THEN Span(RecomputeIsoSpan(LoadRequired(trainer.service, model_dir)))
                        ELSE Span(trainer.service)

ParsedOverride == ~IsNone(env_thresh) /\ Val(env_thresh).parses
ParsedMeta == ~IsNone(model_dir.meta) /\ Val(model_dir.meta).parses

\* C18: after a successful _load_artifacts the threshold in memory is the
\* ANOMALY_THRESHOLD override when one is set and parses, otherwise the
\* threshold stored in meta.json when there is one, otherwise the value the
\* service had before the load; an override that does not parse is ignored,
\* and the load leaves meta.json as it was.
C18_ThresholdPrecedence ==
    Loaded =>
        /\ service.threshold =
              IF ParsedOverride THEN Val(env_thresh).value
              ELSE IF ParsedMeta THEN Val(model_dir.meta).threshold
              ELSE trainer.service.threshold
        /\ model_dir.meta = trainer.model_dir.meta

\* a load with an override that is no number: the threshold of meta.json, which
\* differs from the constructor's, is the one in memory
C18_Witness ==
    /\ Loaded /\ ~IsNone(env_thresh) /\ ~Val(env_thresh).parses /\ ParsedMeta
    /\ service.threshold = Val(model_dir.meta).threshold
    /\ service.threshold # trainer.service.threshold

\* _calculate_threshold returned, and whether the labels held both classes
Calibrated == trainer.pc = "done"
BothClasses == Cardinality(Range(trainer.labels)) = 2

\* F1 = 2 tp / (2 tp + fp + fn) of the candidate 0.09 + k/100, 0 without a
\* true positive
PlainF1(k) ==
    LET c == F1At(trainer.hybrid_scores, trainer.labels, 9 + k)
    IN IF c.tp = 0 THEN <<0, 1>> ELSE <<2 * c.tp, 2 * c.tp + c.fp + c.fn>>

\* C19: with both classes in the labels, _calculate_threshold returns the
\* candidate of the grid 0.10, 0.11, ..., 0.99 whose F1 on the hybrid scores is
\* maximal, the lowest one among candidates of equal maximal F1.
C19_LowestCandidateOfMaximalF1 ==
    (Calibrated /\ BothClasses) =>
        \E k \in 1..90 :
            /\ trainer.best_thresh = 9 + k
            /\ \A j \in 1..90 : RLeq(PlainF1(j), PlainF1(k))
            /\ \A j \in 1..(k - 1) : ~REq(PlainF1(j), PlainF1(k))

\* C20 as stated: whatever the labelled data and the configured threshold,
\* the threshold _calculate_threshold returns is not below 0.10, the lowest
\* candidate of the search.
C20_NeverBelowGrid == Calibrated => trainer.best_thresh >= 10

\* C20 amended: when the labels hold both classes the returned threshold is a
\* candidate of the grid, so not below 0.10, whatever the configured threshold.
C20_NeverBelowGridWhenSearched ==
    (Calibrated /\ BothClasses) => (trainer.best_thresh >= 10 /\ trainer.best_thresh <= 99)

\* a search started from a configured 0.05 on a table whose scores are all
\* below every candidate: every f1 is 0.0 and the first candidate is returned
C20_Witness ==
    /\ Calibrated /\ BothClasses /\ service.threshold = 5
    /\ \A i \in 1..Len(trainer.hybrid_scores) : ~RLeq(<<10, 100>>, trainer.hybrid_scores[i])
    /\ trainer.best_thresh = 10

\* ------------------------------------------------------------------------
\* Normalized isolation score
\* ------------------------------------------------------------------------
\* a scaled vector with k of its columns outside the fitted range
ProbeVec(k) ==
    [c \in Columns |-> IF \E i \in 1..k : feature_columns[i] = c THEN <<2, 1>> ELSE <<0, 1>>]
ProbeVecs == {ProbeVec(k) : k \in 0..Len(feature_columns)} \cup
             (IF LastModel THEN {LastVec} ELSE {})
CalibratedSpan ==
    /\ service.model_loaded /\ ~IsNone(service.iso_model) /\ ~IsNone(service.scaler)
    /\ ~Degenerate(service.iso_decision_max - service.iso_decision_min)
RawOf(x) == DecisionFunction(Val(service.iso_model), x)
ScoreOf(x) ==
    IsoScore(service.iso_model, service.iso_decision_min, service.iso_decision_max, x)

\* a score in units of 1 / (max - min)
OnSpan(score) ==
    IF score[2] = 1 THEN score[1] * (service.iso_decision_max - service.iso_decision_min)
    ELSE score[1]

\* C21: with a span max - min above 1e-9 the isolation score of a raw decision
\* value is clamp((max - raw) / (max - min), 0, 1): it is 0 for raw >= max, 1 for
\* raw <= min, (max - raw) / (max - min) between them, never increases with raw,
\* is the iso_score the predict call returned, and _iso_scores gives the same
\* value.
C21_NormalizedIsoScore ==
    CalibratedSpan =>
        LET dmin == service.iso_decision_min
            dmax == service.iso_decision_max
        IN /\ \A x \in ProbeVecs :
                 /\ ScoreOf(x)[2] \in {1, dmax - dmin}
                 /\ RawOf(x) >= dmax => OnSpan(ScoreOf(x)) = 0
                 /\ RawOf(x) <= dmin => OnSpan(ScoreOf(x)) = dmax - dmin
                 /\ (dmin < RawOf(x) /\ RawOf(x) < dmax) => OnSpan(ScoreOf(x)) = dmax - RawOf(x)
                 /\ IsoScores(service.iso_model, dmin, dmax, <<x>>)[1] = ScoreOf(x)
                 /\ \A y \in ProbeVecs :
                        RawOf(x) <= RawOf(y) => OnSpan(ScoreOf(y)) <= OnSpan(ScoreOf(x))
           /\ LastModel => last.result.iso_score = ScoreOf(LastVec)

\* a prediction whose raw decision value lies strictly inside the calibrated
\* span, scored strictly between 0 and 1
C21_Witness ==
    /\ CalibratedSpan /\ LastModel
    /\ service.iso_decision_min < RawOf(LastVec)
    /\ RawOf(LastVec) < service.iso_decision_max
    /\ ~REq(last.result.iso_score, RZero) /\ ~REq(last.result.iso_score, ROne)

\* C22: a scoring call under a span max - min <= 1e-9 returns clamp(-raw, 0, 1)
\* and does not divide; and after train() or a recomputation of the span (a
\* load without meta.json) the span in memory exceeds 1e-9, as does the span in
\* the meta.json train wrote, which equals the one in memory.
C22_NoDegenerateSpan ==
    /\ (LastModel /\ ~IsNone(service.iso_model)
        /\ Degenerate(service.iso_decision_max - service.iso_decision_min)) =>
          /\ last.result.iso_score = RClamp01(<<-RawOf(LastVec), 1000000>>)
          /\ last.result.iso_score[2] > 0
    /\ (service.model_loaded /\ (ntrains > 0 \/ IsNone(model_dir.meta))) =>
          ~Degenerate(service.iso_decision_max - service.iso_decision_min)
    /\ ntrains > 0 =>
          /\ ~IsNone(model_dir.meta)
          /\ Val(model_dir.meta).iso_decision_min = service.iso_decision_min
          /\ Val(model_dir.meta).iso_decision_max = service.iso_decision_max
          /\ ~Degenerate(Val(model_dir.meta).iso_decision_max
                         - Val(model_dir.meta).iso_decision_min)

\* a service that started on a collapsed span was retrained on decision values
\* that are all equal, holds the widened span of 1e-6 and has scored a flow
C22_Witness ==
    /\ ntrains > 0 /\ LastModel
    /\ service.iso_decision_max = service.iso_decision_min + 1
    /\ Val(model_dir.meta).iso_decision_max = Val(model_dir.meta).iso_decision_min + 1


\* C23: a flow record constructed without a duration has duration = end_time -
\* start_time when both are present and end_time >= start_time, and 0
\* otherwise; a supplied duration is kept as given.
C23_DurationBackfilled ==
    (trainer.pc = "idle" /\ ncalls > 0) =>
        LET d == trainer.data
        IN last.flow.duration =
              IF ~IsNone(d.duration) THEN Val(d.duration)
              ELSE IF ~IsNone(d.start_time) /\ ~IsNone(d.end_time)
                      /\ Val(d.end_time) >= Val(d.start_time)
                   THEN Val(d.end_time) - Val(d.start_time)
                   ELSE 0

\* C24: a RateState entry is never destroyed: across predict, train and
\* artifact-load operations on one service a key that is Tracked stays Tracked
\* (an entry that is kept is not reset, so its sums survive with it).
C24_TrackedStaysTracked ==
    [][\A key \in DOMAIN service.prev_flow_stats : key \in DOMAIN service'.prev_flow_stats]_vars


\* C25: every window the sequence reconstruction model is fitted on holds only
\* rows of label 0, for any label sequence and any sequence length.
C25_WindowsAreNormal ==
    trainer.pc = "fit" =>
        \A n \in 1..Len(trainer.X_seq_normal) :
            LET window == trainer.X[trainer.X_seq_normal[n]]
            IN \A j \in 1..Len(window) : trainer.labels[window[j]] = 0

\* C26: POST /predict with a valid flow record answers with a PredictionResponse
\* (status 200, a label and a confidence) whenever predict returns a result,
\* from the loaded model or, without a model and with the dummy permitted, the
\* dummy result: no error status.
C26_PredictAnswersWithResponse ==
    (last.kind \in {"model", "dummy"}) => RestPredict(last) = 200

\* C27: a train() call that raises because the dataset is missing, a required
\* column is missing or no row has label 0 leaves the service as it was: no
\* artifact file is written and encoders, scaler, detectors, threshold, span,
\* model_loaded and the RateState are unchanged.
C27_FailedTrainChangesNothing ==
    [][(ntrains' = ntrains + 1 /\ Train(service, model_dir, env_thresh).raised # "no")
          => (service' = service /\ model_dir' = model_dir)]_vars


\* C28: the rows of a flow key fed to a freshly loaded service in training
\* order (start time, then row order) without override fields get from
\* _resolve_flow_deltas the pps and bps delta and cumulative increase that
\* _inject_rate_deltas gives the same rows of the table.
C28_ReplayedDeltasAgree ==
    trainer.pc = "replay" =>
        \A i \in DOMAIN trainer.out : trainer.out[i] = InjectRateDeltas(trainer.rows)[i]

\* a key's third row was fed after a rise and a fall of its rates: a negative
\* delta and a cumulative increase kept from the rise
C28_Witness ==
    /\ trainer.pc = "replay" /\ Len(trainer.rows) = 3 /\ DOMAIN trainer.out = {1, 2, 3}
    /\ \E i \in 1..3 :
          /\ Cardinality(GroupBefore(trainer.rows, i)) = 2
          /\ trainer.out[i].pps_delta < 0 /\ trainer.out[i].pps_cum_increase > 0
          /\ trainer.out[i].bps_delta > 0
          /\ i # 3


C30_OneResultPerObjectLine ==
    trainer.pc \in {"done", "raised"} =>
        LET objects == SelectSeq([k \in 1..Len(trainer.lines) |-> k],
                                 LAMBDA k : trainer.lines[k].json = "object")
        IN /\ Len(trainer.published) = Len(objects)
           /\ \A k \in 1..Len(objects) :
                 /\ trainer.published[k].line = objects[k]
                 /\ trainer.published[k].error =>
                       /\ ~trainer.published[k].is_anom
                       /\ trainer.published[k].iso_score = RZero
                       /\ trainer.published[k].hybrid_score = RZero

====
